---- MODULE Spec2Model ----
(***************************************************************************)
(* A model of the photo-card cropper: the batch orchestrators              *)
(* (utils/file_handler.py BatchProcessor.process_batch and the GUI worker  *)
(* main.py PhotoCardCropperApp._process_images), the file-name functions   *)
(* of FileHandler, and the crop geometry of core/cropper.py.               *)
(***************************************************************************)
EXTENDS Integers, Sequences, FiniteSets, TLC

VARIABLES
    runner,              \* which orchestrator runs: "batch" (process_batch) or "gui" (_process_images)
    input_files,         \* the supported image files the input directory holds (a set of file ids)
    skip_existing,       \* BatchProcessor.skip_existing
    has_callback,        \* whether process_batch was given a progress_callback
    fallback_on_no_face, \* PhotoCardCropper.fallback_on_no_face of the cropper the run uses
    output_format,       \* FileHandler.output_format
    fs,                  \* the output files that exist, as <<stem, extension>>
    pc,                  \* position of the orchestrator
    images,              \* the list find_images returned
    idx,                 \* enumerate(images, 1) index of the file being handled
    stats,               \* BatchProcessor.stats
    success_count,       \* _process_images local
    fail_count,          \* _process_images local
    log,                 \* history: one entry [file, cause] per file handled
    cbLog,               \* history: the progress_callback invocations <<idx, total, file>>
    cropCalls,           \* history: indices for which cropper.process_image was invoked
    saveCalls,           \* history: indices for which file_handler.save_image was invoked
    scheduled,           \* the callbacks the GUI worker handed to root.after, in order
    cropper,             \* the fields of one PhotoCardCropper object
    call,                \* the call running on the cropper: its position, arguments and locals
    ret,                 \* what the last call on the cropper returned
    configured,          \* history: the cropper as __init__ or set_size last left it
    other,               \* a second thread's call on the same cropper, and what it returned
    preserve_dpi,        \* FileHandler.preserve_dpi
    saved,               \* what save_image last wrote for a single image
    worker,              \* _process_images: its offset arguments and image_offsets
    cancel_requested,    \* whether the caller has asked the running batch to stop
    cli,                 \* run_cli on a folder: the directories, the process_batch run under way, the runs done
    app                  \* PhotoCardCropperApp: is_processing, its worker threads, the callbacks root.after holds

orchVars == <<runner, input_files, skip_existing, has_callback, fallback_on_no_face,
              output_format, fs, pc, images, idx, stats, success_count, fail_count,
              log, cbLog, cropCalls, saveCalls, scheduled>>

cropVars == <<cropper, call, ret>>

envVars == <<configured, other, preserve_dpi, saved, worker, cancel_requested, cli, app>>

vars == <<orchVars, cropVars, envVars>>

-----------------------------------------------------------------------------
(* Bounds *)

\* longest file list a run handles
MaxFiles == 2

\* largest side of the images _crop_with_padding is called on
MaxImg == 2

\* largest side of the regions _crop_with_padding is called with
MaxCrop == 3

\* the face heights 1 .. MaxFaceH are all tried by _calculate_crop_region
MaxFaceH == 12

\* longest list of faces the detector returns to _detect_largest_face
MaxFaces == 3

\* presses of the start button that start a worker
MaxStarts == 3

\* the same, in the runs checked for progress
MaxFairStarts == 2

\* process_batch runs over one folder
MaxRuns == 2

\* width and height of the small source images of the centre crop
MaxSide == 6

\* pixels of an image whose colours are averaged
MaxPixels == 3

-----------------------------------------------------------------------------
(* Files and paths *)

\* The input directory may hold a1.jpg, a1.png, a2.jpg, a2.png, ...: file f has
\* stem (f+1) \div 2 and extension jpg (odd f) or png (even f).
Files == 1 .. (MaxFiles + 1)

Stem(f) == (f + 1) \div 2

Ext(f) == IF f % 2 = 1 THEN "jpg" ELSE "png"

\* the values FileHandler.output_format takes (the CLI's choices, plus jpeg)
Formats == {"jpg", "jpeg", "png", "webp", "tiff"}

\* sorted(set(images)): paths compare as strings, which is the order of the ids
RECURSIVE SortedSeq(_)
SortedSeq(S) ==
    IF S = {} THEN <<>>
    ELSE LET m == CHOOSE x \in S : \A y \in S : x <= y
         IN  <<m>> \o SortedSeq(S \ {m})

FindImages(dir) == SortedSeq(dir)

\* get_output_path: f"{stem}_cropped.{output_format}" in the output directory
GetOutputPath(f, fmt) == <<Stem(f), fmt>>

\* save_image: the extension it decides on for the format
SaveExt(fmt) ==
    IF fmt \in {"jpg", "jpeg"} THEN "jpg"
    ELSE IF fmt = "png" THEN "png"
    ELSE IF fmt = "webp" THEN "webp"
    ELSE IF fmt = "tiff" THEN "tiff"
    ELSE fmt

\* save_image: the path it writes for original_path f
SavePath(f, fmt) ==
    LET named == <<Stem(f), fmt>>
    IN  IF named[2] # SaveExt(fmt) THEN <<named[1], SaveExt(fmt)>> ELSE named

-----------------------------------------------------------------------------
(* What one call of the cropper returns to the orchestrator *)

\* what can happen to a file inside process_image
ImageKinds == {"unreadable", "no_face", "raises", "face"}

\* process_image's try block: None on a load failure, on no face without
\* fallback, and on any exception; a result otherwise
ProcessImageReturn(kind, fallback) ==
    IF kind = "unreadable" THEN "none"
    ELSE IF kind = "raises" THEN "none"
    ELSE IF kind = "no_face" THEN (IF fallback THEN "result" ELSE "none")
    ELSE "result"

\* the cause recorded for a file whose process_image call returned None
NoneCause(kind) ==
    IF kind = "unreadable" THEN "load_failed"
    ELSE IF kind = "raises" THEN "pipeline_exception"
    ELSE "no_face_fallback_off"

-----------------------------------------------------------------------------
(* BatchProcessor *)

ZeroStats == [total |-> 0, success |-> 0, failed |-> 0, skipped |-> 0]

\* reset_stats
ResetStats == ZeroStats

BumpTwice(st, counter) == [st EXCEPT ![counter] = @ + 2]

\* self.stats[counter] += 1
Bump(st, counter) == [st EXCEPT ![counter] = @ + 1]

BatchCounterSkipAsSuccess(cause) ==
    IF cause \in {"output_exists", "saved"} THEN "success" ELSE "failed"

\* the counter process_batch increments on each branch of the loop body
BatchCounter(cause) ==
    IF cause = "output_exists" THEN "skipped"
    ELSE IF cause = "saved" THEN "success"
    ELSE "failed"

\* the increment a loop branch makes to self.stats
CountFileNoExcept(st, cause) ==
    IF cause = "callback_raised" THEN st ELSE Bump(st, BatchCounter(cause))

CountFile(st, cause) == Bump(st, BatchCounter(cause))

LoopNextOffByOne(i, n) == IF i + 1 < n THEN "top" ELSE "return"

\* where the for loop goes after the file at index i of n
LoopNext(i, n) == IF i < n THEN "top" ELSE "return"

ExceptNextBreak(i, n) == "return"

ExceptNextRaise(i, n) == "raised"

\* the except clause of the loop body: the exception ends this iteration only
ExceptNext(i, n) == LoopNext(i, n)

\* one file is finished with `cause`: the counter moves, the loop goes on
BatchFinishFile(cause, nextpc) ==
    /\ stats' = CountFile(stats, cause)
    /\ log' = Append(log, [file |-> images[idx], cause |-> cause,
                           existed |-> GetOutputPath(images[idx], output_format) \in fs])
    /\ pc' = nextpc
    /\ idx' = IF nextpc = "top" THEN idx + 1 ELSE idx

\* process_batch up to the loop: reset_stats, find_images, total
ProcessBatchStart ==
    /\ runner = "batch"
    /\ pc = "idle"
    /\ images' = FindImages(input_files)
    /\ stats' = [ResetStats EXCEPT !.total = Len(FindImages(input_files))]
    /\ IF FindImages(input_files) = <<>>
          THEN pc' = "done" /\ idx' = idx
          ELSE pc' = "top" /\ idx' = 1
    /\ UNCHANGED <<cropVars, envVars>>
    /\ UNCHANGED <<runner, input_files, skip_existing, has_callback, fallback_on_no_face,
                   output_format, fs, success_count, fail_count, log, cbLog,
                   cropCalls, saveCalls, scheduled>>

ProgressArgsZeroBased(i, imgs) == <<i - 1, Len(imgs), imgs[i]>>

\* progress_callback(idx, len(images), str(image_path)), idx from enumerate(images, 1)
ProgressArgs(i, imgs) == <<i, Len(imgs), imgs[i]>>

\* the head of the loop body: progress_callback, get_output_path, skip_existing
BatchTop ==
    /\ runner = "batch"
    /\ pc = "top"
    /\ cbLog' = IF has_callback
                   THEN Append(cbLog, ProgressArgs(idx, images))
                   ELSE cbLog
    /\ \E cb_raises \in BOOLEAN :
          IF has_callback /\ cb_raises
             THEN BatchFinishFile("callback_raised", ExceptNext(idx, Len(images)))
          ELSE IF skip_existing /\ GetOutputPath(images[idx], output_format) \in fs
             THEN /\ ~cb_raises
                  /\ BatchFinishFile("output_exists", LoopNext(idx, Len(images)))
          ELSE /\ ~cb_raises
               /\ pc' = "process"
               /\ UNCHANGED <<stats, log, idx>>
    /\ UNCHANGED <<cropVars, envVars>>
    /\ UNCHANGED <<runner, input_files, skip_existing, has_callback, fallback_on_no_face,
                   output_format, fs, images, success_count, fail_count,
                   cropCalls, saveCalls, scheduled>>

\* result = self.cropper.process_image(str(image_path)), and the else branch
BatchProcess ==
    /\ runner = "batch"
    /\ pc = "process"
    /\ cropCalls' = cropCalls \cup {idx}
    /\ \E kind \in ImageKinds :
          IF ProcessImageReturn(kind, fallback_on_no_face) = "none"
             THEN BatchFinishFile(NoneCause(kind), LoopNext(idx, Len(images)))
             ELSE /\ pc' = "save"
                  /\ UNCHANGED <<stats, log, idx>>
    /\ UNCHANGED <<cropVars, envVars>>
    /\ UNCHANGED <<runner, input_files, skip_existing, has_callback, fallback_on_no_face,
                   output_format, fs, images, success_count, fail_count, cbLog,
                   saveCalls, scheduled>>

\* saved_path = self.file_handler.save_image(...), and the branch on it
BatchSave ==
    /\ runner = "batch"
    /\ pc = "save"
    /\ saveCalls' = saveCalls \cup {idx}
    /\ \E save_ok \in BOOLEAN :
          IF save_ok
             THEN /\ fs' = fs \cup {SavePath(images[idx], output_format)}
                  /\ BatchFinishFile("saved", LoopNext(idx, Len(images)))
             ELSE /\ fs' = fs
                  /\ BatchFinishFile("save_failed", LoopNext(idx, Len(images)))
    /\ UNCHANGED <<cropVars, envVars>>
    /\ UNCHANGED <<runner, input_files, skip_existing, has_callback, fallback_on_no_face,
                   output_format, images, success_count, fail_count, cbLog,
                   cropCalls, scheduled>>

\* the loop is over: return self.stats
BatchReturn ==
    /\ runner = "batch"
    /\ pc = "return"
    /\ pc' = "done"
    /\ UNCHANGED <<cropVars, envVars>>
    /\ UNCHANGED <<runner, input_files, skip_existing, has_callback, fallback_on_no_face,
                   output_format, fs, images, idx, stats, success_count, fail_count,
                   log, cbLog, cropCalls, saveCalls, scheduled>>

NextBatch == ProcessBatchStart \/ BatchTop \/ BatchProcess \/ BatchSave \/ BatchReturn

-----------------------------------------------------------------------------
(* The GUI worker, PhotoCardCropperApp._process_images *)

\* the counter the GUI loop body increments on each of its branches
GuiCounter(cause) == IF cause = "saved" THEN "success_count" ELSE "fail_count"

\* where the GUI's for loop goes after the file at index i of n
GuiLoopNext(i, n) == IF i < n THEN "gui_process" ELSE "gui_return"

\* the except clause of the GUI loop body: the exception ends this iteration only
GuiExceptNext(i, n) == GuiLoopNext(i, n)

\* one file is finished with `cause`: a counter moves, the progress update is
\* handed to root.after, the loop goes on
GuiFinishFile(cause, nextpc) ==
    /\ success_count' = success_count + (IF GuiCounter(cause) = "success_count" THEN 1 ELSE 0)
    /\ fail_count' = fail_count + (IF GuiCounter(cause) = "fail_count" THEN 1 ELSE 0)
    /\ log' = Append(log, [file |-> images[idx], cause |-> cause,
                           existed |-> GetOutputPath(images[idx], output_format) \in fs])
    /\ scheduled' = Append(scheduled, "update_progress")
    /\ pc' = nextpc
    /\ idx' = IF nextpc = "gui_process" THEN idx + 1 ELSE idx

\* _process_images up to the loop: the cropper and the file handler are built,
\* the images are listed; an empty list schedules completion and returns (the
\* finally clause then schedules completion again); an exception goes to the
\* outer except and the finally clause
GuiStart ==
    /\ runner = "gui"
    /\ pc = "idle"
    /\ \E ctor_ok \in BOOLEAN :
          IF ~ctor_ok
             THEN /\ scheduled' = <<"log_error", "processing_complete">>
                  /\ pc' = "done"
                  /\ UNCHANGED <<images, idx>>
          ELSE IF FindImages(input_files) = <<>>
             THEN /\ scheduled' = <<"log_no_images", "processing_complete",
                                    "processing_complete">>
                  /\ images' = <<>>
                  /\ pc' = "done"
                  /\ idx' = idx
          ELSE /\ scheduled' = <<"log_found", "log_size">>
               /\ images' = FindImages(input_files)
               /\ pc' = "gui_process"
               /\ idx' = 1
    /\ UNCHANGED <<cropVars, envVars>>
    /\ UNCHANGED <<runner, input_files, skip_existing, has_callback, fallback_on_no_face,
                   output_format, fs, stats, success_count, fail_count, log, cbLog,
                   cropCalls, saveCalls>>

\* result = cropper.process_image(...), the else branch and the except clause
GuiProcess ==
    /\ runner = "gui"
    /\ pc = "gui_process"
    /\ \E raised \in BOOLEAN, kind \in ImageKinds :
          IF raised
             THEN /\ kind = "face"
                  /\ cropCalls' = cropCalls
                  /\ GuiFinishFile("loop_exception", GuiExceptNext(idx, Len(images)))
          ELSE IF ProcessImageReturn(kind, fallback_on_no_face) = "none"
             THEN /\ cropCalls' = cropCalls \cup {idx}
                  /\ GuiFinishFile(NoneCause(kind), GuiLoopNext(idx, Len(images)))
          ELSE /\ cropCalls' = cropCalls \cup {idx}
               /\ pc' = "gui_save"
               /\ UNCHANGED <<success_count, fail_count, log, scheduled, idx>>
    /\ UNCHANGED <<cropVars, envVars>>
    /\ UNCHANGED <<runner, input_files, skip_existing, has_callback, fallback_on_no_face,
                   output_format, fs, images, stats, cbLog, saveCalls>>

\* saved_path = file_handler.save_image(...), and the branch on it
GuiSave ==
    /\ runner = "gui"
    /\ pc = "gui_save"
    /\ saveCalls' = saveCalls \cup {idx}
    /\ \E save_ok \in BOOLEAN :
          IF save_ok
             THEN /\ fs' = fs \cup {SavePath(images[idx], output_format)}
                  /\ GuiFinishFile("saved", GuiLoopNext(idx, Len(images)))
             ELSE /\ fs' = fs
                  /\ GuiFinishFile("save_failed", GuiLoopNext(idx, Len(images)))
    /\ UNCHANGED <<cropVars, envVars>>
    /\ UNCHANGED <<runner, input_files, skip_existing, has_callback, fallback_on_no_face,
                   output_format, images, stats, cbLog, cropCalls>>

\* the loop is over: the summary is logged and the finally clause schedules
\* _processing_complete
GuiReturn ==
    /\ runner = "gui"
    /\ pc = "gui_return"
    /\ scheduled' = scheduled \o <<"log_summary", "processing_complete">>
    /\ pc' = "done"
    /\ UNCHANGED <<cropVars, envVars>>
    /\ UNCHANGED <<runner, input_files, skip_existing, has_callback, fallback_on_no_face,
                   output_format, fs, images, idx, stats, success_count, fail_count,
                   log, cbLog, cropCalls, saveCalls>>

NextGui == GuiStart \/ GuiProcess \/ GuiSave \/ GuiReturn

-----------------------------------------------------------------------------
(* Python floats *)

\* A Python float is an IEEE-754 binary64: a sign, a 53-bit significand and
\* an exponent.  The significand is held as its leading bit followed by
\* NLimbs limbs of Chunk bits, so <<1, c1, c2, c3, c4>> with exponent e is
\* (1 + c1/2^13 + c2/2^26 + c3/2^39 + c4/2^52) * 2^e.  Every operation
\* rounds to nearest, ties to even, as the hardware does.  The integers the
\* program multiplies and divides (pixel counts, millimetres) are below Base.
Chunk == 13

NLimbs == 4

Base == 2 ^ Chunk

FZero == [sign |-> 1, m |-> <<>>, exp |-> 0]

Abs(n) == IF n < 0 THEN -n ELSE n

Sgn(n) == IF n < 0 THEN -1 ELSE 1

RECURSIVE BitLen(_)
BitLen(n) == IF n = 0 THEN 0 ELSE 1 + BitLen(n \div 2)

\* the exponent e with 2^e <= n/d < 2^(e+1)
RECURSIVE ExpUp(_, _, _)
ExpUp(n, d, e) == IF n >= 2 * d THEN ExpUp(n, 2 * d, e + 1) ELSE e

RECURSIVE ExpDown(_, _, _)
ExpDown(n, d, e) == IF n < d THEN ExpDown(2 * n, d, e - 1) ELSE e

ConsDigit(dgt, rest) == [digits |-> <<dgt>> \o rest.digits, rem |-> rest.rem]

\* k more limbs of r/D (r < D) after the leading bit, and the remainder
RECURSIVE Digits(_, _, _)
Digits(r, D, k) ==
    IF k = 0 THEN [digits |-> <<>>, rem |-> r]
    ELSE ConsDigit((r * Base) \div D, Digits((r * Base) % D, D, k - 1))

\* add one unit in the last place to limbs i..1, carrying leftwards
RECURSIVE Increment(_, _)
Increment(m, i) ==
    IF i = 1 THEN [m |-> m, carry |-> 1]
    ELSE IF m[i] < Base - 1 THEN [m |-> [m EXCEPT ![i] = m[i] + 1], carry |-> 0]
    ELSE Increment([m EXCEPT ![i] = 0], i - 1)

Carried(sign, inc, exp) == [sign |-> sign, m |-> inc.m, exp |-> exp + inc.carry]

\* the float of significand m, one unit in the last place up if `up`
RoundUp(sign, m, exp, up) ==
    IF up THEN Carried(sign, Increment(m, NLimbs + 1), exp)
    ELSE [sign |-> sign, m |-> m, exp |-> exp]

\* to nearest, ties to even: what is left over against half a unit
RoundsUp(twice_left, unit, last_limb) ==
    twice_left > unit \/ (twice_left = unit /\ last_limb % 2 = 1)

FromDigits(sign, e, q, den) ==
    RoundUp(sign, <<1>> \o q.digits, e, RoundsUp(2 * q.rem, den, q.digits[NLimbs]))

FromQuotient(sign, e, num, den) == FromDigits(sign, e, Digits(num - den, den, NLimbs), den)

FromScaled(sign, a, d, e) ==
    FromQuotient(sign, e, IF e >= 0 THEN a ELSE a * 2 ^ (-e), IF e >= 0 THEN d * 2 ^ e ELSE d)

\* the float nearest to n/d (d > 0): a literal such as 2.8, or the quotient
\* of two integer-valued floats
FromRat(n, d) ==
    IF n = 0 THEN FZero
    ELSE FromScaled(Sgn(n), Abs(n), d,
                    IF Abs(n) >= d THEN ExpUp(Abs(n), d, 0) ELSE ExpDown(Abs(n), d, 0))

\* limbs times a small integer; the first limb of the result takes the carry
RECURSIVE MulAcc(_, _, _, _, _)
MulAcc(m, i, k, carry, acc) ==
    IF i = 1 THEN <<m[1] * k + carry>> \o acc
    ELSE MulAcc(m, i - 1, k, (m[i] * k + carry) \div Base,
                <<(m[i] * k + carry) % Base>> \o acc)

MulSmall(m, k) == MulAcc(m, Len(m), k, 0, <<>>)

\* limbs P, whose first limb has low's bit set highest, divided by low
ShiftRight(P, low) ==
    [i \in 1 .. NLimbs + 1 |->
        IF i = 1 THEN P[1] \div low
        ELSE (P[i - 1] % low) * (Base \div low) + P[i] \div low]

ShiftRound(sign, P, exp, sh) ==
    RoundUp(sign, ShiftRight(P, 2 ^ sh), exp + sh,
            RoundsUp(2 * (P[NLimbs + 1] % 2 ^ sh), 2 ^ sh, P[NLimbs + 1] \div 2 ^ sh))

Normalise(sign, P, exp) == ShiftRound(sign, P, exp, BitLen(P[1]) - 1)

\* int * float
MulInt(k, f) ==
    IF k = 0 \/ f.m = <<>> THEN FZero
    ELSE Normalise(f.sign * Sgn(k), MulSmall(f.m, Abs(k)), f.exp)

FirstOf(diff) == CHOOSE j \in diff : \A l \in diff : j <= l

\* A <= B for limb sequences of the same length
LimbsLe(A, B) ==
    \/ \A i \in 1 .. Len(A) : A[i] = B[i]
    \/ A[FirstOf({i \in 1 .. Len(A) : A[i] # B[i]})] < B[FirstOf({i \in 1 .. Len(A) : A[i] # B[i]})]

\* A - B for limb sequences of the same length with B <= A
RECURSIVE LimbsSubAcc(_, _, _, _, _)
LimbsSubAcc(A, B, i, borrow, acc) ==
    IF i = 0 THEN acc
    ELSE LimbsSubAcc(A, B, i - 1, IF A[i] - B[i] - borrow < 0 THEN 1 ELSE 0,
                     <<(A[i] - B[i] - borrow + Base) % Base>> \o acc)

LimbsSub(A, B) == LimbsSubAcc(A, B, Len(A), 0, <<>>)

\* the limb d with d*M <= R < (d+1)*M, which lies around est
LimbNear(R, M, est) ==
    CHOOSE d \in (est - 2) .. (est + 1) :
        /\ d >= 0
        /\ LimbsLe(MulSmall(M, d), R)
        /\ ~LimbsLe(MulSmall(M, d + 1), R)

\* the quotient limb of R by M, found from the quotient of the leading limbs
QuotientLimb(R, M) ==
    LimbNear(R, M, ((R[1] * Base + R[2]) * Base + R[3]) \div (M[2] * Base + M[3]))

\* k more limbs of R/M (R < M) after the leading bit, and the remainder
RECURSIVE BigDigits(_, _, _)
RECURSIVE BigStep(_, _, _, _)
BigDigits(R, M, k) ==
    IF k = 0 THEN [digits |-> <<>>, rem |-> R]
    ELSE BigStep(Tail(R) \o <<0>>, M, k, QuotientLimb(Tail(R) \o <<0>>, M))

BigStep(R, M, k, dgt) == ConsDigit(dgt, BigDigits(LimbsSub(R, MulSmall(M, dgt)), M, k - 1))

\* the integer a * 2^s as limbs, s chosen so that it is aligned with a significand
TopLimbs(a, s) == <<0, (a * 2 ^ s) \div Base, (a * 2 ^ s) % Base, 0, 0, 0>>

DivRound(sign, q, M, e) ==
    RoundUp(sign, <<1>> \o q.digits, e,
            \/ (MulSmall(q.rem, 2) # M /\ LimbsLe(M, MulSmall(q.rem, 2)))
            \/ (MulSmall(q.rem, 2) = M /\ q.digits[NLimbs] % 2 = 1))

DivFrom(sign, A, M, e) == DivRound(sign, BigDigits(LimbsSub(A, M), M, NLimbs), M, e)

DivAligned(sign, a, M, j, fexp) ==
    IF LimbsLe(M, TopLimbs(a, Chunk - j))
       THEN DivFrom(sign, TopLimbs(a, Chunk - j), M, j - fexp)
       ELSE DivFrom(sign, TopLimbs(a, Chunk + 1 - j), M, j - 1 - fexp)

\* int / float (f nonzero)
DivIntFloat(k, f) ==
    IF k = 0 THEN FZero
    ELSE DivAligned(Sgn(k) * f.sign, Abs(k), <<0>> \o f.m, BitLen(Abs(k)) - 1, f.exp)

\* |f| > |g| for nonzero floats
MagGt(f, g) == f.exp > g.exp \/ (f.exp = g.exp /\ ~LimbsLe(f.m, g.m))

\* -1, 0 or 1
SignOf(f) == IF f.m = <<>> THEN 0 ELSE f.sign

\* f > g
FloatGt(f, g) ==
    IF SignOf(f) # SignOf(g) THEN SignOf(f) > SignOf(g)
    ELSE IF SignOf(f) = 0 THEN FALSE
    ELSE IF f.sign = 1 THEN MagGt(f, g) ELSE MagGt(g, f)

\* int(f): the integer part, truncated toward zero (magnitudes below 2^27)
Trunc(f) ==
    IF f.m = <<>> \/ f.exp < 0 THEN 0
    ELSE f.sign * (((f.m[1] * Base + f.m[2]) * Base + f.m[3]) \div 2 ^ (2 * Chunk - f.exp))

-----------------------------------------------------------------------------
(* core/cropper.py: PhotoCardCropper, its geometry on pixels *)

\* A float literal of the source or of a caller, written as the decimal n/d
\* (2.8 is Dec(28, 10)); Float gives the binary64 it denotes.
Dec(n, d) == [n |-> n, d |-> d]

Float(x) == FromRat(x.n, x.d)

\* An Optional argument: <<>> is None, <<v>> is the value v.
None == <<>>

Some(v) == <<v>>

\* a // 2 (Python floors)
FloorHalf(a) == a \div 2

Max(a, b) == IF a >= b THEN a ELSE b

Min(a, b) == IF a <= b THEN a ELSE b

\* __init__: the fields it stores, the ratio and the 10 px/mm output size
\* (the sizes in millimetres are whole numbers)
Construct(cfg) ==
    [zoom_factor |-> cfg.zoom_factor,
     eye_position |-> cfg.eye_position,
     width_mm |-> cfg.width_mm,
     height_mm |-> cfg.height_mm,
     padding_mode |-> cfg.padding_mode,
     fallback_on_no_face |-> cfg.fallback_on_no_face,
     preserve_resolution |-> cfg.preserve_resolution,
     min_output_height |-> cfg.min_output_height,
     offset_x |-> cfg.offset_x,
     offset_y |-> cfg.offset_y,
     aspect_ratio |-> FromRat(cfg.width_mm, cfg.height_mm),
     default_output_width |-> cfg.width_mm * 10,
     default_output_height |-> cfg.height_mm * 10]

\* the defaults of __init__'s parameters
DefaultConfig ==
    [zoom_factor |-> Dec(28, 10), eye_position |-> Dec(4, 10),
     width_mm |-> 55, height_mm |-> 85, padding_mode |-> "white",
     fallback_on_no_face |-> TRUE, preserve_resolution |-> TRUE,
     min_output_height |-> 850, offset_x |-> Dec(0, 1), offset_y |-> Dec(0, 1)]

\* set_size
SetSizeFields(c, width_mm, height_mm) ==
    [c EXCEPT !.width_mm = width_mm,
              !.height_mm = height_mm,
              !.aspect_ratio = FromRat(width_mm, height_mm),
              !.default_output_width = width_mm * 10,
              !.default_output_height = height_mm * 10]

\* FaceDetector.get_eye_center: the midpoint of the first two eyes, the
\* centre of the only eye, or a point 35% down the face
GetEyeCenter(bbox, eyes) ==
    LET centre(b) == <<b.x + FloorHalf(b.w), b.y + FloorHalf(b.h)>>
    IN  IF Len(eyes) >= 2
           THEN <<FloorHalf(centre(eyes[1])[1] + centre(eyes[2])[1]),
                  FloorHalf(centre(eyes[1])[2] + centre(eyes[2])[2])>>
        ELSE IF Len(eyes) = 1 THEN centre(eyes[1])
        ELSE <<bbox.x + FloorHalf(bbox.w), bbox.y + Trunc(MulInt(bbox.h, FromRat(35, 100)))>>

\* the key of max: lambda f: f[2] * f[3]
Area(f) == f.w * f.h

TakesOverOnTie(item, best) == Area(item) >= Area(best)

\* max(faces, key=...): a later item replaces the best so far only when its
\* key is strictly greater
TakesOver(item, best) == Area(item) > Area(best)

RECURSIVE MaxByArea(_, _, _)
MaxByArea(faces, i, best) ==
    IF i > Len(faces) THEN best
    ELSE MaxByArea(faces, i + 1, IF TakesOver(faces[i], best) THEN faces[i] ELSE best)

\* _detect_largest_face: largest_face = max(faces, key=lambda f: f[2] * f[3])
LargestFace(faces) == MaxByArea(faces, 2, faces[1])

\* _detect_largest_face: None without a face, else the largest face and its
\* eye centre (the eyes are those the cascade finds in that face)
DetectLargestFace(faces, eyes) ==
    IF faces = <<>> THEN None
    ELSE Some([face |-> LargestFace(faces),
               eye_center |-> GetEyeCenter(LargestFace(faces), eyes)])

CropWidthSquare(crop_height, aspect_ratio) == crop_height

\* _calculate_crop_region: crop_width = int(crop_height * self.aspect_ratio)
CropWidth(crop_height, aspect_ratio) == Trunc(MulInt(crop_height, aspect_ratio))

PlaceRegionFloored(c, eye_center, off_x, off_y, crop_width, crop_height) ==
    [x |-> eye_center[1] - FloorHalf(crop_width) + (crop_width * off_x.n) \div off_x.d,
     y |-> eye_center[2] - Trunc(MulInt(crop_height, Float(c.eye_position)))
           + (crop_height * off_y.n) \div off_y.d,
     w |-> crop_width,
     h |-> crop_height]

\* _calculate_crop_region, from the sizes on: the eye line sits eye_position
\* down the frame, the frame is centred on the eyes, then moved by the offsets
PlaceRegion(c, eye_center, off_x, off_y, crop_width, crop_height) ==
    [x |-> eye_center[1] - FloorHalf(crop_width) + Trunc(MulInt(crop_width, Float(off_x))),
     y |-> eye_center[2] - Trunc(MulInt(crop_height, Float(c.eye_position)))
           + Trunc(MulInt(crop_height, Float(off_y))),
     w |-> crop_width,
     h |-> crop_height]

SizeRegion(c, eye_center, off_x, off_y, crop_height) ==
    PlaceRegion(c, eye_center, off_x, off_y, CropWidth(crop_height, c.aspect_ratio), crop_height)

\* _calculate_crop_region
CalculateCropRegion(c, bbox, eye_center, offset_x, offset_y) ==
    SizeRegion(c, eye_center,
               IF offset_x # None THEN offset_x[1] ELSE c.offset_x,
               IF offset_y # None THEN offset_y[1] ELSE c.offset_y,
               Trunc(MulInt(bbox.h, Float(c.zoom_factor))))

\* the length of a[start:stop] for an axis of length n (numpy and Python
\* clip the bounds and count negative ones from the end)
SliceLen(start, stop, n) ==
    LET clip(i) == IF i < 0 THEN Max(i + n, 0) ELSE Min(i, n)
    IN  Max(0, clip(stop) - clip(start))

\* an array, by its shape; Raised stands for an exception on the way
Array(w, h) == [ok |-> TRUE, w |-> w, h |-> h]

Raised == [ok |-> FALSE, w |-> 0, h |-> 0]

MirrorOriginUnshifted(crop, pad) == crop

\* _crop_with_padding, mirror: crop_x += pad_left, crop_y += pad_top
MirrorOrigin(crop, pad) == crop + pad

\* _crop_with_padding, mirror mode: reflect the image outwards as far as the
\* region reaches, then slice the region out of it
CropMirror(img, crop_x, crop_y, crop_width, crop_height) ==
    LET pad_left == Max(0, -crop_x)
        pad_top == Max(0, -crop_y)
        pad_right == Max(0, (crop_x + crop_width) - img.w)
        pad_bottom == Max(0, (crop_y + crop_height) - img.h)
        padded == pad_left > 0 \/ pad_top > 0 \/ pad_right > 0 \/ pad_bottom > 0
        bordered == IF padded THEN Array(img.w + pad_left + pad_right, img.h + pad_top + pad_bottom)
                    ELSE img
        x0 == IF padded THEN MirrorOrigin(crop_x, pad_left) ELSE crop_x
        y0 == IF padded THEN MirrorOrigin(crop_y, pad_top) ELSE crop_y
    IN  Array(SliceLen(x0, x0 + crop_width, bordered.w),
              SliceLen(y0, y0 + crop_height, bordered.h))

\* _crop_with_padding, white and average modes: a canvas of the region's size
\* filled with the padding colour, the part of the image inside the region
\* copied onto it
CropCanvas(img, crop_x, crop_y, crop_width, crop_height) ==
    LET src_x1 == Max(0, crop_x)
        src_y1 == Max(0, crop_y)
        src_x2 == Min(img.w, crop_x + crop_width)
        src_y2 == Min(img.h, crop_y + crop_height)
        dst_x1 == src_x1 - crop_x
        dst_y1 == src_y1 - crop_y
        dst_x2 == dst_x1 + (src_x2 - src_x1)
        dst_y2 == dst_y1 + (src_y2 - src_y1)
        fits(src, dst) == src = dst \/ src = 1
    IN  IF crop_width < 0 \/ crop_height < 0 THEN Raised
        ELSE IF src_x2 > src_x1 /\ src_y2 > src_y1
                /\ ~ /\ fits(SliceLen(src_x1, src_x2, img.w), SliceLen(dst_x1, dst_x2, crop_width))
                     /\ fits(SliceLen(src_y1, src_y2, img.h), SliceLen(dst_y1, dst_y2, crop_height))
           THEN Raised
        ELSE Array(crop_width, crop_height)

\* the sum of channel ch over the pixels from the i-th on
RECURSIVE ChannelSum(_, _, _)
ChannelSum(pixels, ch, i) ==
    IF i > Len(pixels) THEN 0 ELSE pixels[i][ch] + ChannelSum(pixels, ch, i + 1)

\* cv2.mean(image)[:3]: per channel, the sum of the pixels over their number
\* (kept as the fraction n/d)
ChannelMean(pixels, ch) == [n |-> ChannelSum(pixels, ch, 1), d |-> Len(pixels)]

\* int(c) for c in avg_color: the fraction of a mean (>= 0) is dropped
IntOfMean(mean) == mean.n \div mean.d

\* _get_padding_color, for an image given as the sequence of its pixels
GetPaddingColor(padding_mode, pixels) ==
    IF padding_mode = "white" THEN <<255, 255, 255>>
    ELSE IF padding_mode = "average"
            THEN [ch \in 1 .. 3 |-> IntOfMean(ChannelMean(pixels, ch))]
    ELSE <<255, 255, 255>>

\* the pixel image[y, x] of the source image
SourcePixel(x, y) == <<"source", x, y>>

\* _get_padding_color: the colour np.full fills the canvas with
FillPixel(padding_mode) == <<"fill", padding_mode>>

DstStartAtOrigin(src1, crop) == 0

\* _crop_with_padding: dst_x1 = src_x1 - crop_x, dst_y1 = src_y1 - crop_y
DstStart(src1, crop) == src1 - crop

\* _crop_with_padding, white and average modes, pixel by pixel: the canvas
\* np.full made, then cropped[dst_y1:dst_y2, dst_x1:dst_x2] =
\* image[src_y1:src_y2, src_x1:src_x2] where the intersection is not empty
\* (for a region of sides >= 0; columns i and rows j count from 0)
CanvasPixels(padding_mode, img, crop_x, crop_y, crop_width, crop_height) ==
    LET src_x1 == Max(0, crop_x)
        src_y1 == Max(0, crop_y)
        src_x2 == Min(img.w, crop_x + crop_width)
        src_y2 == Min(img.h, crop_y + crop_height)
        dst_x1 == DstStart(src_x1, crop_x)
        dst_y1 == DstStart(src_y1, crop_y)
        dst_x2 == dst_x1 + (src_x2 - src_x1)
        dst_y2 == dst_y1 + (src_y2 - src_y1)
        copied == src_x2 > src_x1 /\ src_y2 > src_y1
    IN  [i \in 0 .. crop_width - 1, j \in 0 .. crop_height - 1 |->
            IF copied /\ dst_x1 <= i /\ i < dst_x2 /\ dst_y1 <= j /\ j < dst_y2
               THEN SourcePixel(src_x1 + (i - dst_x1), src_y1 + (j - dst_y1))
               ELSE FillPixel(padding_mode)]

\* _crop_with_padding
CropWithPadding(padding_mode, img, crop_x, crop_y, crop_width, crop_height) ==
    IF padding_mode = "mirror"
       THEN CropMirror(img, crop_x, crop_y, crop_width, crop_height)
       ELSE CropCanvas(img, crop_x, crop_y, crop_width, crop_height)

\* _center_crop_fallback: the size of the largest region of the target ratio
CenterCropSize(c, img) ==
    IF FloatGt(FromRat(img.w, img.h), c.aspect_ratio)
       THEN <<Trunc(MulInt(img.h, c.aspect_ratio)), img.h>>
       ELSE <<img.w, Trunc(DivIntFloat(img.w, c.aspect_ratio))>>

CentredAtOrigin(img, size) == [x |-> 0, y |-> 0, w |-> size[1], h |-> size[2]]

\* _center_crop_fallback: crop_x = (img_width - crop_width) // 2, crop_y alike
Centred(img, size) ==
    [x |-> FloorHalf(img.w - size[1]), y |-> FloorHalf(img.h - size[2]),
     w |-> size[1], h |-> size[2]]

\* _center_crop_fallback: that region, centred
CenterCropRegion(c, img) == Centred(img, CenterCropSize(c, img))

CropRegion(padding_mode, img, r) == CropWithPadding(padding_mode, img, r.x, r.y, r.w, r.h)

CenterCropFallback(c, img) == CropRegion(c.padding_mode, img, CenterCropRegion(c, img))

\* cv2.resize(src, (width, height)): rejects an empty source and a size that
\* is not positive
Resize(src, width, height) ==
    IF src.w = 0 \/ src.h = 0 \/ width <= 0 \/ height <= 0 THEN Raised
    ELSE Array(width, height)

\* process_image, preserve_resolution branch: new_w = int(crop_w * scale)
\* with scale = self.min_output_height / crop_h
ScaledWidth(crop_w, crop_h, min_output_height) ==
    Trunc(MulInt(crop_w, FromRat(min_output_height, crop_h)))

\* process_image: the output normalisation of the cropped array
Normalize(c, cropped) ==
    IF c.preserve_resolution
       THEN IF cropped.h < c.min_output_height
               THEN IF cropped.h = 0 THEN Raised
                    ELSE Resize(cropped,
                                ScaledWidth(cropped.w, cropped.h, c.min_output_height),
                                c.min_output_height)
               ELSE cropped
       ELSE Resize(cropped, c.default_output_width, c.default_output_height)

\* what a call yields: the value it returns and, for the record, the cause
\* of a None, the image, the region and the cropped array
Outcome(value, cause, img, region, cropped, result) ==
    [value |-> value, cause |-> cause, img |-> img, region |-> region, cropped |-> cropped,
     w |-> result.w, h |-> result.h]

NoRegion == [x |-> 0, y |-> 0, w |-> 0, h |-> 0]

Normalized(img, region, cropped, result) ==
    IF result.ok THEN Outcome("result", "", img, region, cropped, result)
    ELSE Outcome("None", "exception", img, region, cropped, Raised)

Cropped(c, img, region, cropped) ==
    IF cropped.ok THEN Normalized(img, region, cropped, Normalize(c, cropped))
    ELSE Outcome("None", "exception", img, region, cropped, Raised)

CropAndNormalize(c, img, region) ==
    Cropped(c, img, region, CropRegion(c.padding_mode, img, region))

FaceFound(c, img, face, eyes) ==
    CropAndNormalize(c, img, CalculateCropRegion(c, face, GetEyeCenter(face, eyes), None, None))

\* the try block of process_image and process_image_from_array from the
\* loaded image on: detect, crop (or fall back, or give up), normalise
Pipeline(c, img, faces, eyes) ==
    IF faces = <<>>
       THEN IF c.fallback_on_no_face
               THEN CropAndNormalize(c, img, CenterCropRegion(c, img))
               ELSE Outcome("None", "no_face", img, NoRegion, Raised, Raised)
       ELSE FaceFound(c, img, LargestFace(faces), eyes)

-----------------------------------------------------------------------------
(* PhotoCardCropper: the calls on one cropper object *)

\* nothing returned yet
NoOut == Outcome("", "", Raised, NoRegion, Raised, Raised)

ReturnNone(cause) == Outcome("None", cause, Raised, NoRegion, Raised, Raised)

\* the metadata dictionary _load_image_with_metadata starts from, and the one
\* process_image_from_array uses when it is given none
DefaultMetadata == [dpi |-> <<72, 72>>, exif |-> None, icc_profile |-> None]

NoMetadata == [dpi |-> <<0, 0>>, exif |-> None, icc_profile |-> None]

\* an image file, by what Pillow reports of it: info['dpi'], the EXIF block
\* (info['exif'], with the resolution tags 282 and 283 _getexif finds in it)
\* and info['icc_profile']
NoFile == [info_dpi |-> None, exif |-> None, icc_profile |-> None, name |-> ""]

SourceFiles ==
    {[info_dpi |-> None, exif |-> None, icc_profile |-> None, name |-> "plain.png"],
     [info_dpi |-> Some(<<300, 300>>),
      exif |-> Some([block |-> "exif-a", resolution |-> Some(<<240, 240>>)]),
      icc_profile |-> Some("icc-a"), name |-> "print.jpg"],
     [info_dpi |-> None,
      exif |-> Some([block |-> "exif-b", resolution |-> Some(<<96, 72>>)]),
      icc_profile |-> None, name |-> "camera.jpg"]}

\* _load_image_with_metadata: the metadata it returns with the image
LoadMetadata(file) ==
    [dpi |-> IF file.info_dpi # None THEN file.info_dpi[1]
             ELSE IF file.exif # None /\ file.exif[1].resolution # None
                     THEN file.exif[1].resolution[1]
             ELSE DefaultMetadata.dpi,
     exif |-> IF file.exif # None THEN Some(file.exif[1].block) ELSE DefaultMetadata.exif,
     icc_profile |-> IF file.icc_profile # None THEN file.icc_profile
                     ELSE DefaultMetadata.icc_profile]

RescaleDpi(metadata, cropped, result) ==
    IF cropped.h = 0 THEN metadata
    ELSE [metadata EXCEPT !.dpi = <<(@[1] * result.h) \div cropped.h,
                                    (@[2] * result.h) \div cropped.h>>]

\* process_image from the load to the return: crop and resize work on the
\* array, the metadata dictionary is returned as it was loaded
CarryMetadata(metadata, cropped, result) == metadata

NoArgs ==
    [zoom_factor |-> None, eye_position |-> None, width_mm |-> None, height_mm |-> None,
     offset_x |-> None, offset_y |-> None, metadata |-> None]

\* the fields of self the try block reads
Used(c) ==
    [zoom_factor |-> c.zoom_factor, eye_position |-> c.eye_position,
     offset_x |-> c.offset_x, offset_y |-> c.offset_y, aspect_ratio |-> c.aspect_ratio]

NoUsed ==
    [zoom_factor |-> Dec(0, 1), eye_position |-> Dec(0, 1), offset_x |-> Dec(0, 1),
     offset_y |-> Dec(0, 1), aspect_ratio |-> FZero]

\* no call is running: nothing saved, nothing pending
IdleCall ==
    [pc |-> "idle", fn |-> "", args |-> NoArgs,
     original_zoom |-> Dec(0, 1), original_eye_pos |-> Dec(0, 1),
     original_offset_x |-> Dec(0, 1), original_offset_y |-> Dec(0, 1),
     original_aspect |-> None, pending |-> NoOut,
     file |-> NoFile, metadata |-> NoMetadata, used |-> NoUsed]

NoInput == [img |-> Raised, box |-> NoRegion]

NoReturn ==
    [fn |-> "", args |-> NoArgs, input |-> NoInput, out |-> NoOut,
     file |-> NoFile, metadata |-> None, used |-> NoUsed]

\* nothing is saved, no second thread, no per-file offsets, no request to stop
NoSave == [written |-> FALSE, error |-> FALSE]

NoWorker == [offset_x |-> Dec(0, 1), offset_y |-> Dec(0, 1), image_offsets |-> <<>>]

\* no folder run of the CLI, no GUI application
NoCli == [pc |-> "none"]

NoApp == [pc |-> "none"]

NoThread == [call |-> IdleCall, ret |-> NoReturn, events |-> <<>>]

IdleEnv ==
    /\ configured = cropper
    /\ other = NoThread
    /\ preserve_dpi = TRUE
    /\ saved = NoSave
    /\ worker = NoWorker
    /\ cancel_requested = FALSE
    /\ cli = NoCli
    /\ app = NoApp

\* the output sizes a cropper is built with and set_size is called with: the
\* photo card, the square and the passport presets
Sizes == {<<55, 85>>, <<62, 62>>, <<35, 45>>}

ZoomFactors == {Dec(28, 10), Dec(16, 10)}

\* the images a path can hold (a photo, a small square thumbnail, a scan)
Images == {Array(600, 800), Array(88, 88), Array(2400, 3600)}

\* faces the cascade reports (at least 50 x 50 pixels), inside the image
SmallFace == [x |-> 16, y |-> 10, w |-> 55, h |-> 55]

LargeFace == [x |-> 100, y |-> 150, w |-> 400, h |-> 400]

FaceLists(img) ==
    {fl \in {<<>>, <<SmallFace>>, <<LargeFace>>, <<SmallFace, LargeFace>>} :
        \A i \in 1 .. Len(fl) : fl[i].x + fl[i].w <= img.w /\ fl[i].y + fl[i].h <= img.h}

\* eyes the cascade reports in the upper half of a face (at least 20 x 20)
EyeLists(faces) ==
    IF faces = <<>> THEN {<<>>}
    ELSE LET fc == LargestFace(faces)
             left == [x |-> fc.x + fc.w \div 5, y |-> fc.y + fc.h \div 4, w |-> 20, h |-> 20]
             right == [left EXCEPT !.x = fc.x + (3 * fc.w) \div 5]
         IN  {<<>>, <<left>>, <<left, right>>}

\* the per-call overrides a caller passes
ZoomArgs == {None, Some(Dec(16, 10))}

EyeArgs == {None, Some(Dec(35, 100))}

OffsetArgs == {None, Some(Dec(1, 10))}

SizeArgs == {<<None, None>>, <<Some(35), Some(45)>>, <<Some(35), None>>, <<Some(35), Some(0)>>}

MetadataArgs == {None, Some([dpi |-> <<300, 300>>, exif |-> None, icc_profile |-> Some("icc-a")])}

\* set_size(width_mm, height_mm)
SetSize ==
    /\ call.pc = "idle"
    /\ \E size \in Sizes :
         /\ cropper' = SetSizeFields(cropper, size[1], size[2])
         /\ configured' = SetSizeFields(cropper, size[1], size[2])
    /\ ret' = NoReturn
    /\ UNCHANGED <<call, orchVars, other, preserve_dpi, saved, worker, cancel_requested, cli, app>>

\* an Optional parameter: `x if x is not None else self.x`
Pick(arg, field) == IF arg # None THEN arg[1] ELSE field

\* a call up to its try: the originals go to locals (cropper.py 396-405,
\* 494-500) ...
Entered(fn, args, c) ==
    [pc |-> "body", fn |-> fn, args |-> args,
     original_zoom |-> c.zoom_factor,
     original_eye_pos |-> c.eye_position,
     original_offset_x |-> c.offset_x,
     original_offset_y |-> c.offset_y,
     original_aspect |-> IF args.width_mm # None /\ args.height_mm # None
                            THEN Some(c.aspect_ratio) ELSE None,
     pending |-> NoOut,
     file |-> NoFile,
     metadata |-> IF fn = "process_image_from_array"
                     THEN Pick(args.metadata, DefaultMetadata) ELSE NoMetadata,
     used |-> NoUsed]

NotOverridden(args, c) == c

\* ... and the overrides take effect on the object (cropper.py 390-398, 406-409)
Overridden(args, c) ==
    [c EXCEPT !.aspect_ratio = IF args.width_mm # None /\ args.height_mm # None
                                  THEN FromRat(args.width_mm[1], args.height_mm[1]) ELSE @,
              !.zoom_factor = Pick(args.zoom_factor, @),
              !.eye_position = Pick(args.eye_position, @),
              !.offset_x = Pick(args.offset_x, @),
              !.offset_y = Pick(args.offset_y, @)]

\* the try block has run on the object c: what it leaves for the return
Tried(cl, c, file, metadata, out) ==
    [cl EXCEPT !.pc = "exit", !.pending = out, !.file = file,
               !.metadata = CarryMetadata(metadata, out.cropped, out),
               !.used = Used(c)]

RestoredWithoutAspect(cl, c) ==
    [c EXCEPT !.zoom_factor = cl.original_zoom,
              !.eye_position = cl.original_eye_pos,
              !.offset_x = cl.original_offset_x,
              !.offset_y = cl.original_offset_y]

\* the finally block of process_image (cropper.py 471-477)
Restored(cl, c) ==
    [c EXCEPT !.zoom_factor = cl.original_zoom,
              !.eye_position = cl.original_eye_pos,
              !.offset_x = cl.original_offset_x,
              !.offset_y = cl.original_offset_y,
              !.aspect_ratio = IF cl.original_aspect # None THEN cl.original_aspect[1] ELSE @]

\* what the caller gets: None, or the result with the metadata
Return(cl) ==
    [fn |-> cl.fn, args |-> cl.args, input |-> NoInput, out |-> cl.pending,
     file |-> cl.file,
     metadata |-> IF cl.pending.value = "result" THEN Some(cl.metadata) ELSE None,
     used |-> cl.used]

\* width_mm / height_mm of the size override is defined (cropper.py 396-398)
Divides(args) ==
    args.width_mm = None \/ args.height_mm = None \/ args.height_mm[1] # 0

\* an exception leaves the call: the caller gets no value
RaisedToCaller(fn, args, cause) ==
    [NoReturn EXCEPT !.fn = fn, !.args = args,
                     !.out = Outcome("raised", cause, Raised, NoRegion, Raised, Raised)]

\* process_image up to the try: the overrides take effect on the object and
\* the originals go to locals (cropper.py 390-409); the division of a size
\* override by a height of 0 raises before the try, with nothing assigned yet
ProcessImageEnter ==
    /\ call.pc = "idle"
    /\ \E zoom_factor \in ZoomArgs, eye_position \in EyeArgs, size \in SizeArgs,
          offset_x \in OffsetArgs :
         LET args == [zoom_factor |-> zoom_factor, eye_position |-> eye_position,
                      width_mm |-> size[1], height_mm |-> size[2],
                      offset_x |-> offset_x, offset_y |-> None, metadata |-> None]
         IN  IF Divides(args)
                THEN /\ call' = Entered("process_image", args, cropper)
                     /\ cropper' = Overridden(args, cropper)
                     /\ ret' = NoReturn
                ELSE /\ ret' = RaisedToCaller("process_image", args, "ZeroDivisionError")
                     /\ UNCHANGED <<call, cropper>>
    /\ UNCHANGED <<orchVars, envVars>>

\* process_image, the try block (cropper.py 411-469): the load fails, or a
\* call of the block raises (the detector, OpenCV) and the except clause
\* returns None, or the image goes through the pipeline
ProcessImageBody ==
    /\ call.pc = "body"
    /\ call.fn = "process_image"
    /\ \/ \E cause \in {"load_failed", "exception"} :
            call' = [call EXCEPT !.pc = "exit", !.pending = ReturnNone(cause),
                                 !.used = Used(cropper)]
       \/ \E img \in Images, file \in SourceFiles :
            \E faces \in FaceLists(img) : \E eyes \in EyeLists(faces) :
               call' = Tried(call, cropper, file, LoadMetadata(file),
                             Pipeline(cropper, img, faces, eyes))
    /\ UNCHANGED <<cropper, ret, orchVars, envVars>>

\* process_image, the finally block and the return (cropper.py 471-477)
ProcessImageExit ==
    /\ call.pc = "exit"
    /\ call.fn = "process_image"
    /\ cropper' = Restored(call, cropper)
    /\ ret' = Return(call)
    /\ call' = IdleCall
    /\ UNCHANGED <<orchVars, envVars>>

\* process_image_from_array up to the try (cropper.py 489-504)
FromArrayEnter ==
    /\ call.pc = "idle"
    /\ \E zoom_factor \in ZoomArgs, offset_y \in OffsetArgs, metadata \in MetadataArgs :
         LET args == [NoArgs EXCEPT !.zoom_factor = zoom_factor, !.offset_y = offset_y,
                                    !.metadata = metadata]
         IN  /\ call' = Entered("process_image_from_array", args, cropper)
             /\ cropper' = Overridden(args, cropper)
    /\ ret' = NoReturn
    /\ UNCHANGED <<orchVars, envVars>>

\* process_image_from_array, the try block (cropper.py 506-545): the array
\* is None or empty, or goes through the pipeline
FromArrayBody ==
    /\ call.pc = "body"
    /\ call.fn = "process_image_from_array"
    /\ \/ \E cause \in {"invalid_array", "exception"} :
            call' = [call EXCEPT !.pc = "exit", !.pending = ReturnNone(cause),
                                 !.used = Used(cropper)]
       \/ \E img \in Images : \E faces \in FaceLists(img) : \E eyes \in EyeLists(faces) :
            call' = Tried(call, cropper, NoFile, call.metadata,
                          Pipeline(cropper, img, faces, eyes))
    /\ UNCHANGED <<cropper, ret, orchVars, envVars>>

\* process_image_from_array, the finally block and the return (cropper.py 547-551)
FromArrayExit ==
    /\ call.pc = "exit"
    /\ call.fn = "process_image_from_array"
    /\ cropper' = [cropper EXCEPT
                     !.zoom_factor = call.original_zoom,
                     !.eye_position = call.original_eye_pos,
                     !.offset_x = call.original_offset_x,
                     !.offset_y = call.original_offset_y]
    /\ ret' = Return(call)
    /\ call' = IdleCall
    /\ UNCHANGED <<orchVars, envVars>>

\* save_image: the keyword arguments it hands to Pillow (file_handler.py
\* 190-224): the DPI when the handler preserves it, the EXIF block for JPEG
\* only, the colour profile when there is one
SaveKwargs(metadata, fmt, keep_dpi) ==
    [dpi |-> IF keep_dpi /\ metadata # None THEN Some(metadata[1].dpi) ELSE None,
     exif |-> IF fmt \in {"jpg", "jpeg"} /\ metadata # None THEN metadata[1].exif ELSE None,
     icc_profile |-> IF metadata # None THEN metadata[1].icc_profile ELSE None]

\* the file save_image writes
Written(image, fmt, kwargs) ==
    [written |-> TRUE, error |-> FALSE, w |-> image.w, h |-> image.h, ext |-> SaveExt(fmt),
     dpi |-> kwargs.dpi, exif |-> kwargs.exif, icc_profile |-> kwargs.icc_profile]

\* the caller of a single image (main.py 1321-1323): process_image(path)
SingleEnter ==
    /\ call.pc = "idle"
    /\ ret = NoReturn
    /\ saved = NoSave
    /\ call' = Entered("process_image", NoArgs, cropper)
    /\ cropper' = Overridden(NoArgs, cropper)
    /\ UNCHANGED <<ret, orchVars, envVars>>

\* ... and, for a result, save_image(image_data, output_path, metadata)
\* (main.py 1324-1335, file_handler.py 125-234): the file is written, or an
\* exception is caught and None returned
SaveImage ==
    /\ call.pc = "idle"
    /\ ret.fn = "process_image"
    /\ ret.out.value = "result"
    /\ saved = NoSave
    /\ \/ saved' = Written(ret.out, output_format,
                           SaveKwargs(ret.metadata, output_format, preserve_dpi))
       \/ saved' = [written |-> FALSE, error |-> TRUE]
    /\ UNCHANGED <<cropVars, orchVars, configured, other, preserve_dpi, worker, cancel_requested, cli, app>>

NextSingle == SingleEnter \/ ProcessImageBody \/ ProcessImageExit \/ SaveImage

\* the offsets the GUI lets a user set (sliders from -0.3 to 0.3)
GuiOffsets == {<<Dec(0, 1), Dec(0, 1)>>, <<Dec(1, 10), Dec(-5, 100)>>, <<Dec(-3, 10), Dec(2, 10)>>}

FileOffsetsDefaultOnly(f, image_offsets, offset_x, offset_y) == <<offset_x, offset_y>>

\* _process_images, main.py 1171-1176: the pair of the file when the mapping
\* has one, the batch-level offsets otherwise
FileOffsets(f, image_offsets, offset_x, offset_y) ==
    IF f \in DOMAIN image_offsets THEN image_offsets[f] ELSE <<offset_x, offset_y>>

\* the arguments of cropper.process_image(path, offset_x=..., offset_y=...)
OffsetCallArgs(pair) == [NoArgs EXCEPT !.offset_x = Some(pair[1]), !.offset_y = Some(pair[2])]

\* the GUI loop body up to the call (main.py 1170-1183): the offsets of the
\* file are looked up and process_image is entered with them; an exception
\* on the way goes to the loop's except clause
GuiCall ==
    /\ runner = "gui"
    /\ pc = "gui_process"
    /\ call.pc = "idle"
    /\ idx \notin cropCalls
    /\ ret' = NoReturn
    /\ \E raised \in BOOLEAN :
          IF raised
             THEN /\ GuiFinishFile("loop_exception", GuiExceptNext(idx, Len(images)))
                  /\ UNCHANGED <<cropper, call, cropCalls>>
             ELSE /\ cropCalls' = cropCalls \cup {idx}
                  /\ call' = Entered("process_image",
                                     OffsetCallArgs(FileOffsets(images[idx], worker.image_offsets,
                                                                worker.offset_x, worker.offset_y)),
                                     cropper)
                  /\ cropper' = Overridden(OffsetCallArgs(FileOffsets(images[idx],
                                                                      worker.image_offsets,
                                                                      worker.offset_x,
                                                                      worker.offset_y)),
                                           cropper)
                  /\ UNCHANGED <<success_count, fail_count, log, scheduled, pc, idx>>
    /\ UNCHANGED <<runner, input_files, skip_existing, has_callback, fallback_on_no_face,
                   output_format, fs, images, stats, cbLog, saveCalls, envVars>>

\* the GUI loop body once process_image has returned (main.py 1185-1205):
\* a result goes on to save_image, None counts as a failure
GuiResult ==
    /\ runner = "gui"
    /\ pc = "gui_process"
    /\ call.pc = "idle"
    /\ idx \in cropCalls
    /\ ret.fn = "process_image"
    /\ IF ret.out.value = "result"
          THEN /\ pc' = "gui_save"
               /\ UNCHANGED <<success_count, fail_count, log, scheduled, idx>>
          ELSE GuiFinishFile(ret.out.cause, GuiLoopNext(idx, Len(images)))
    /\ UNCHANGED <<runner, input_files, skip_existing, has_callback, fallback_on_no_face,
                   output_format, fs, images, stats, cbLog, cropCalls, saveCalls,
                   cropVars, envVars>>

NextGuiCalls ==
    \/ GuiStart
    \/ GuiCall
    \/ ProcessImageBody
    \/ ProcessImageExit
    \/ GuiResult
    \/ GuiSave
    \/ GuiReturn

\* the caller (a user of the CLI or of the GUI window) asks the running batch
\* to stop; process_batch and _process_images take no cancellation token and
\* read no flag, so nothing of the run changes
RequestCancel ==
    /\ pc \notin {"idle", "done"}
    /\ ~cancel_requested
    /\ cancel_requested' = TRUE
    /\ UNCHANGED <<orchVars, cropVars, configured, other, preserve_dpi, saved, worker, cli, app>>

\* the overrides two threads pass to process_image on one cropper
ThreadOverrides ==
    {[NoArgs EXCEPT !.zoom_factor = Some(Dec(16, 10)), !.offset_x = Some(Dec(1, 10))],
     [NoArgs EXCEPT !.zoom_factor = Some(Dec(2, 1)), !.eye_position = Some(Dec(35, 100)),
                    !.offset_y = Some(Dec(-5, 100))],
     [NoArgs EXCEPT !.width_mm = Some(35), !.height_mm = Some(45)]}

\* what the try block of a thread's call can find at its path
ThreadOutcomes(c) ==
    {ReturnNone("load_failed")}
        \cup {Pipeline(c, Array(600, 800), faces, eyes) :
                 faces \in FaceLists(Array(600, 800)),
                 eyes \in {<<>>, <<[x |-> 180, y |-> 250, w |-> 20, h |-> 20],
                                   [x |-> 340, y |-> 250, w |-> 20, h |-> 20]>>}}

\* history: the steps of the two threads, in the order they were taken
Event(other_thread, step, thread) ==
    [other_thread EXCEPT !.events = Append(@, <<step, thread>>)]

\* thread 1 calls process_image (cropper.py 390-409) ...
Thread1Enter ==
    /\ call.pc = "idle"
    /\ ret = NoReturn
    /\ \E args \in ThreadOverrides :
         /\ call' = Entered("process_image", args, cropper)
         /\ cropper' = Overridden(args, cropper)
    /\ other' = Event(other, "enter", 1)
    /\ UNCHANGED <<ret, orchVars, configured, preserve_dpi, saved, worker, cancel_requested, cli, app>>

\* ... runs its try block on what the object holds by then (411-469) ...
Thread1Body ==
    /\ call.pc = "body"
    /\ \E out \in ThreadOutcomes(cropper) :
         call' = Tried(call, cropper, NoFile, DefaultMetadata, out)
    /\ other' = Event(other, "body", 1)
    /\ UNCHANGED <<cropper, ret, orchVars, configured, preserve_dpi, saved, worker,
                   cancel_requested, cli, app>>

\* ... and puts back the values it saved (471-477)
Thread1Exit ==
    /\ call.pc = "exit"
    /\ cropper' = Restored(call, cropper)
    /\ ret' = Return(call)
    /\ call' = IdleCall
    /\ other' = Event(other, "exit", 1)
    /\ UNCHANGED <<orchVars, configured, preserve_dpi, saved, worker, cancel_requested, cli, app>>

\* thread 2 does the same on the same object
Thread2Enter ==
    /\ other.call.pc = "idle"
    /\ other.ret = NoReturn
    /\ \E args \in ThreadOverrides :
         /\ other' = Event([other EXCEPT !.call = Entered("process_image", args, cropper)],
                           "enter", 2)
         /\ cropper' = Overridden(args, cropper)
    /\ UNCHANGED <<call, ret, orchVars, configured, preserve_dpi, saved, worker,
                   cancel_requested, cli, app>>

Thread2Body ==
    /\ other.call.pc = "body"
    /\ \E out \in ThreadOutcomes(cropper) :
         other' = Event([other EXCEPT !.call = Tried(@, cropper, NoFile, DefaultMetadata, out)],
                        "body", 2)
    /\ UNCHANGED <<cropVars, orchVars, configured, preserve_dpi, saved, worker,
                   cancel_requested, cli, app>>

Thread2Exit ==
    /\ other.call.pc = "exit"
    /\ cropper' = Restored(other.call, cropper)
    /\ other' = Event([other EXCEPT !.ret = Return(other.call), !.call = IdleCall], "exit", 2)
    /\ UNCHANGED <<call, ret, orchVars, configured, preserve_dpi, saved, worker,
                   cancel_requested, cli, app>>

NextThreads ==
    \/ Thread1Enter
    \/ Thread1Body
    \/ Thread1Exit
    \/ Thread2Enter
    \/ Thread2Body
    \/ Thread2Exit

NextCropper ==
    \/ SetSize
    \/ ProcessImageEnter
    \/ ProcessImageBody
    \/ ProcessImageExit
    \/ FromArrayEnter
    \/ FromArrayBody
    \/ FromArrayExit

-----------------------------------------------------------------------------
(* PhotoCardCropper: its geometry methods called on their own *)

\* what a geometry method returned: a region, or an array (or it raised)
Returned(img, region, arr) ==
    Outcome(IF region # NoRegion \/ arr.ok THEN "result" ELSE "raised", "", img, region, arr, arr)

\* the images, regions and faces the geometry methods are called with
SmallImages == {Array(w, h) : w \in 1 .. MaxImg, h \in 1 .. MaxImg}

CropSizes == (-1) .. MaxCrop

CropOrigins == (-(MaxCrop + 1)) .. (MaxImg + 1)

PaddingModes == {"white", "average", "mirror"}

\* _crop_with_padding(image, crop_x, crop_y, crop_width, crop_height)
CropWithPaddingCall ==
    /\ call.pc = "idle"
    /\ ret = NoReturn
    /\ \E img \in SmallImages, x \in CropOrigins, y \in CropOrigins,
          w \in CropSizes, h \in CropSizes :
         ret' = [fn |-> "_crop_with_padding", args |-> NoArgs,
                 input |-> [img |-> img, box |-> [x |-> x, y |-> y, w |-> w, h |-> h]],
                 out |-> Returned(img, NoRegion,
                                  CropWithPadding(cropper.padding_mode, img, x, y, w, h))
                         @@ [pixels |-> IF cropper.padding_mode # "mirror" /\ w >= 0 /\ h >= 0
                                           THEN CanvasPixels(cropper.padding_mode, img, x, y, w, h)
                                           ELSE <<>>]]
    /\ UNCHANGED <<cropper, call, orchVars, envVars>>

NextPadding == CropWithPaddingCall

\* source images of every small size, and some of the shape of a card
FallbackImages ==
    {Array(w, h) : w \in 1 .. MaxSide, h \in 1 .. MaxSide}
        \cup {Array(55, 85), Array(550, 850), Array(62, 62), Array(30, 22),
              Array(600, 800), Array(2400, 3600)}

\* _center_crop_fallback(image)
CenterCropFallbackCall ==
    /\ call.pc = "idle"
    /\ ret = NoReturn
    /\ \E img \in FallbackImages :
         ret' = [fn |-> "_center_crop_fallback", args |-> NoArgs,
                 input |-> [img |-> img, box |-> NoRegion],
                 out |-> Returned(img, CenterCropRegion(cropper, img),
                                  CenterCropFallback(cropper, img))]
    /\ UNCHANGED <<cropper, call, orchVars, envVars>>

NextFallback == CenterCropFallbackCall

\* the colours (three channels of 0..255) of the pixels of a small image
PixelColours == {<<0, 0, 0>>, <<1, 0, 255>>, <<1, 255, 254>>, <<0, 1, 255>>}

\* _get_padding_color(image), on images of up to MaxPixels pixels
GetPaddingColorCall ==
    /\ call.pc = "idle"
    /\ ret = NoReturn
    /\ \E n \in 1 .. MaxPixels : \E pixels \in [1 .. n -> PixelColours] :
         ret' = [fn |-> "_get_padding_color", args |-> NoArgs,
                 input |-> [pixels |-> pixels],
                 out |-> NoOut @@ [colour |-> GetPaddingColor(cropper.padding_mode, pixels)]]
    /\ UNCHANGED <<cropper, call, orchVars, envVars>>

NextColour == GetPaddingColorCall

\* face boxes of every small height and of some the cascade reports
FaceHeights == (1 .. MaxFaceH) \cup {55, 137, 400}

\* custom sizes next to the presets: 15 x 11 and 13 x 3 millimetres
RegionSizes == Sizes \cup {<<15, 11>>, <<13, 3>>}

\* zoom factors from a twentieth (the frame of a small face comes to nothing) to 5
RegionZooms == {Dec(5, 100), Dec(1, 1), Dec(15, 10), Dec(28, 10), Dec(5, 1)}

RegionOffsets == {Dec(0, 1), Dec(-3, 10)}

\* the offset_x argument: left out, to the right, to the left
RegionOffsetArgs == OffsetArgs \cup {Some(Dec(-25, 100))}

\* _calculate_crop_region(image, face_bbox, eye_center, offset_x, offset_y)
CalculateCropRegionCall ==
    /\ call.pc = "idle"
    /\ ret = NoReturn
    /\ \E fh \in FaceHeights, eyes \in {0, 2}, offset_x \in RegionOffsetArgs :
         LET bbox == [x |-> 100, y |-> 120, w |-> fh, h |-> fh]
             pair == <<[x |-> 100 + fh \div 5, y |-> 120 + fh \div 4, w |-> 20, h |-> 20],
                       [x |-> 100 + (3 * fh) \div 5, y |-> 120 + fh \div 4, w |-> 20, h |-> 20]>>
             eye_center == GetEyeCenter(bbox, SubSeq(pair, 1, eyes))
         IN  ret' = [fn |-> "_calculate_crop_region",
                     args |-> [NoArgs EXCEPT !.offset_x = offset_x],
                     input |-> [img |-> Array(600, 800), box |-> bbox, eye_center |-> eye_center],
                     out |-> Returned(Array(600, 800),
                                      CalculateCropRegion(cropper, bbox, eye_center, offset_x, None),
                                      Raised)]
    /\ UNCHANGED <<cropper, call, orchVars, envVars>>

NextRegion == CalculateCropRegionCall

\* the rectangles a detector can hand to _detect_largest_face: one of area
\* 100 and three of area 400, two of these of the same shape
FaceBoxes ==
    {[x |-> 1, y |-> 1, w |-> 10, h |-> 10], [x |-> 30, y |-> 5, w |-> 20, h |-> 20],
     [x |-> 60, y |-> 5, w |-> 40, h |-> 10], [x |-> 5, y |-> 50, w |-> 20, h |-> 20]}

RECURSIVE ListsUpTo(_, _)
ListsUpTo(S, n) ==
    IF n = 0 THEN {<<>>}
    ELSE ListsUpTo(S, n - 1) \cup {Append(l, b) : l \in {m \in ListsUpTo(S, n - 1) : Len(m) = n - 1}, b \in S}

\* _detect_largest_face(image), the detector returning `faces`
DetectLargestFaceCall ==
    /\ call.pc = "idle"
    /\ ret = NoReturn
    /\ \E faces \in ListsUpTo(FaceBoxes, MaxFaces) : \E eyes \in EyeLists(faces) :
         ret' = [fn |-> "_detect_largest_face", args |-> NoArgs,
                 input |-> [img |-> Array(600, 800), box |-> NoRegion, faces |-> faces],
                 out |-> [value |-> IF DetectLargestFace(faces, eyes) = None THEN "None" ELSE "face",
                          found |-> DetectLargestFace(faces, eyes)]]
    /\ UNCHANGED <<cropper, call, orchVars, envVars>>

NextDetect == DetectLargestFaceCall

-----------------------------------------------------------------------------
(* Specification *)

\* process_batch is run by the CLI or a caller with any configuration; the GUI
\* builds its own cropper (fallback on) and file handler (jpg), has no
\* skip_existing and no progress callback
InitOrch ==
    /\ runner \in {"batch", "gui"}
    /\ input_files \in {S \in SUBSET Files : Cardinality(S) <= MaxFiles}
    /\ skip_existing \in (IF runner = "batch" THEN BOOLEAN ELSE {FALSE})
    /\ has_callback \in (IF runner = "batch" THEN BOOLEAN ELSE {FALSE})
    /\ fallback_on_no_face \in (IF runner = "batch" THEN BOOLEAN ELSE {TRUE})
    /\ output_format \in (IF runner = "batch" THEN Formats ELSE {"jpg"})
    /\ fs \in SUBSET {SavePath(f, output_format) : f \in Files}
    /\ pc = "idle"
    /\ images = <<>>
    /\ idx = 0
    /\ stats = ZeroStats
    /\ success_count = 0
    /\ fail_count = 0
    /\ log = <<>>
    /\ cbLog = <<>>
    /\ cropCalls = {}
    /\ saveCalls = {}
    /\ scheduled = <<>>

\* no orchestrator runs
IdleOrch ==
    /\ runner = "none"
    /\ input_files = {}
    /\ skip_existing = FALSE
    /\ has_callback = FALSE
    /\ fallback_on_no_face = TRUE
    /\ output_format = "jpg"
    /\ fs = {}
    /\ pc = "idle"
    /\ images = <<>>
    /\ idx = 0
    /\ stats = ZeroStats
    /\ success_count = 0
    /\ fail_count = 0
    /\ log = <<>>
    /\ cbLog = <<>>
    /\ cropCalls = {}
    /\ saveCalls = {}
    /\ scheduled = <<>>

\* the orchestrators, with the cropper they use seen through what its calls
\* return
Init ==
    /\ InitOrch
    /\ cropper = Construct([DefaultConfig EXCEPT !.fallback_on_no_face = fallback_on_no_face])
    /\ call = IdleCall
    /\ ret = NoReturn
    /\ IdleEnv

Next == NextBatch \/ NextGui

Spec == Init /\ [][Next]_vars

\* the sequential code runs on: every step of a run returns
FairSpec == Spec /\ WF_vars(Next)

\* the orchestrators, and a caller who may ask them to stop
NextCancel == Next \/ RequestCancel

SpecCancel == Init /\ [][NextCancel]_vars

\* one cropper object, built with any of the configurations, and the calls a
\* single-threaded caller makes on it
CropperConfigs ==
    {[DefaultConfig EXCEPT !.zoom_factor = z, !.width_mm = s[1], !.height_mm = s[2],
                           !.fallback_on_no_face = fb, !.preserve_resolution = pr] :
        z \in ZoomFactors, s \in Sizes \ {<<35, 45>>}, fb \in BOOLEAN, pr \in BOOLEAN}

InitCropper ==
    /\ IdleOrch
    /\ cropper \in {Construct(cfg) : cfg \in CropperConfigs}
    /\ call = IdleCall
    /\ ret = NoReturn
    /\ IdleEnv

SpecCropper == InitCropper /\ [][NextCropper]_vars

\* _crop_with_padding on a cropper of each padding mode
InitPadding ==
    /\ IdleOrch
    /\ cropper \in {Construct([DefaultConfig EXCEPT !.padding_mode = pm]) : pm \in PaddingModes}
    /\ call = IdleCall
    /\ ret = NoReturn
    /\ IdleEnv

SpecPadding == InitPadding /\ [][NextPadding]_vars

\* _get_padding_color on croppers of each padding mode
SpecColour == InitPadding /\ [][NextColour]_vars

\* _center_crop_fallback on croppers of the preset and some custom sizes
InitFallback ==
    /\ IdleOrch
    /\ cropper \in {Construct([DefaultConfig EXCEPT !.width_mm = s[1], !.height_mm = s[2]]) :
                       s \in RegionSizes \cup {<<1, 2000>>}}
    /\ call = IdleCall
    /\ ret = NoReturn
    /\ IdleEnv

SpecFallback == InitFallback /\ [][NextFallback]_vars

\* _calculate_crop_region on croppers of various zoom, size and offset
InitRegion ==
    /\ IdleOrch
    /\ cropper \in {Construct([DefaultConfig EXCEPT !.zoom_factor = z, !.width_mm = s[1],
                                                    !.height_mm = s[2], !.offset_y = oy]) :
                       z \in RegionZooms, s \in RegionSizes, oy \in RegionOffsets}
    /\ call = IdleCall
    /\ ret = NoReturn
    /\ IdleEnv

SpecRegion == InitRegion /\ [][NextRegion]_vars

\* _detect_largest_face on a cropper of the default configuration
InitDetect ==
    /\ IdleOrch
    /\ cropper = Construct(DefaultConfig)
    /\ call = IdleCall
    /\ ret = NoReturn
    /\ IdleEnv

SpecDetect == InitDetect /\ [][NextDetect]_vars

\* one image processed and saved, by a handler of any format, preserving the
\* DPI or not
InitSingle ==
    /\ runner = "none"
    /\ input_files = {}
    /\ skip_existing = FALSE
    /\ has_callback = FALSE
    /\ fallback_on_no_face = TRUE
    /\ output_format \in Formats
    /\ fs = {}
    /\ pc = "idle"
    /\ images = <<>>
    /\ idx = 0
    /\ stats = ZeroStats
    /\ success_count = 0
    /\ fail_count = 0
    /\ log = <<>>
    /\ cbLog = <<>>
    /\ cropCalls = {}
    /\ saveCalls = {}
    /\ scheduled = <<>>
    /\ cropper \in {Construct(cfg) : cfg \in CropperConfigs}
    /\ call = IdleCall
    /\ ret = NoReturn
    /\ configured = cropper
    /\ other = NoThread
    /\ preserve_dpi \in BOOLEAN
    /\ saved = NoSave
    /\ worker = NoWorker
    /\ cancel_requested = FALSE
    /\ cli = NoCli
    /\ app = NoApp

SpecSingle == InitSingle /\ [][NextSingle]_vars

\* the GUI worker with the cropper it builds (main.py 1126-1136) from the
\* sliders and the size fields, and the per-image offsets of the preview
InitGuiCalls ==
    /\ runner = "gui"
    /\ input_files \in {S \in SUBSET Files : Cardinality(S) <= MaxFiles}
    /\ skip_existing = FALSE
    /\ has_callback = FALSE
    /\ fallback_on_no_face = TRUE
    /\ output_format = "jpg"
    /\ fs = {}
    /\ pc = "idle"
    /\ images = <<>>
    /\ idx = 0
    /\ stats = ZeroStats
    /\ success_count = 0
    /\ fail_count = 0
    /\ log = <<>>
    /\ cbLog = <<>>
    /\ cropCalls = {}
    /\ saveCalls = {}
    /\ scheduled = <<>>
    /\ \E batch \in GuiOffsets \ {<<Dec(1, 10), Dec(-5, 100)>>} :
       \E keys \in SUBSET input_files :
       \E image_offsets \in [keys -> {<<Dec(1, 10), Dec(-5, 100)>>}] :
          /\ worker = [offset_x |-> batch[1], offset_y |-> batch[2],
                       image_offsets |-> image_offsets]
          /\ cropper = Construct([DefaultConfig EXCEPT !.zoom_factor = Dec(16, 10),
                                                       !.offset_x = batch[1],
                                                       !.offset_y = batch[2]])
    /\ call = IdleCall
    /\ ret = NoReturn
    /\ configured = cropper
    /\ other = NoThread
    /\ preserve_dpi = TRUE
    /\ saved = NoSave
    /\ cancel_requested = FALSE
    /\ cli = NoCli
    /\ app = NoApp

SpecGuiCalls == InitGuiCalls /\ [][NextGuiCalls]_vars

\* croppers built, as __init__ allows, with any numbers: sizes and zoom
\* factors that are positive, zero or negative (a height of 0 alone stops
\* __init__, at the division of line 193)
UncheckedConfigs ==
    {[DefaultConfig EXCEPT !.zoom_factor = z, !.width_mm = w, !.padding_mode = pm] :
        z \in {Dec(28, 10), Dec(0, 1), Dec(-28, 10)}, w \in {55, 0, -55}, pm \in PaddingModes}

InitUnchecked ==
    /\ IdleOrch
    /\ cropper \in {Construct(cfg) : cfg \in UncheckedConfigs}
    /\ call = IdleCall
    /\ ret = NoReturn
    /\ IdleEnv

SpecUnchecked == InitUnchecked /\ [][NextSingle]_vars

\* croppers of positive parameters whose frame can lose its width: a card
\* 1 mm wide and 2000 mm high next to the default one, the default zoom next
\* to a twentieth
NarrowConfigs ==
    {[DefaultConfig EXCEPT !.zoom_factor = z, !.width_mm = s[1], !.height_mm = s[2],
                           !.padding_mode = pm, !.preserve_resolution = pr] :
        z \in {Dec(28, 10), Dec(5, 100)}, s \in {<<55, 85>>, <<1, 2000>>},
        pm \in {"white", "mirror"}, pr \in BOOLEAN}

InitNarrow ==
    /\ IdleOrch
    /\ cropper \in {Construct(cfg) : cfg \in NarrowConfigs}
    /\ call = IdleCall
    /\ ret = NoReturn
    /\ IdleEnv

SpecNarrow == InitNarrow /\ [][NextCropper]_vars

-----------------------------------------------------------------------------
(* run_cli on a folder: process_batch runs over one input directory *)

\* A file below the input directory (or below a separate output directory):
\* `depth` directories named "cropped" lie above it, its stem is `base`
\* followed by `crops` times "_cropped", and it can be read as an image or not.
\* The folder holds some of a.jpg, b.png and the unreadable b.jpg.
CliOriginals ==
    {[depth |-> 0, base |-> "a", crops |-> 0, ext |-> "jpg", readable |-> TRUE],
     [depth |-> 0, base |-> "b", crops |-> 0, ext |-> "png", readable |-> TRUE],
     [depth |-> 0, base |-> "b", crops |-> 0, ext |-> "jpg", readable |-> FALSE]}

\* the order of sorted(set(images)) on Path objects: part by part, so a file
\* comes before the files of the "cropped" directory beside it, and a stem
\* before the same stem with "_cropped" ("." sorts before "_")
PathKey(p) == <<p.depth, IF p.base = "a" THEN 1 ELSE 2, p.crops, IF p.ext = "jpg" THEN 1 ELSE 2>>

PathBefore(p, q) ==
    \E i \in 1 .. 4 : PathKey(p)[i] < PathKey(q)[i] /\ \A j \in 1 .. (i - 1) : PathKey(p)[j] = PathKey(q)[j]

RECURSIVE SortedPaths(_)
SortedPaths(S) ==
    IF S = {} THEN <<>>
    ELSE LET first == CHOOSE p \in S : \A q \in S \ {p} : PathBefore(p, q)
         IN  <<first>> \o SortedPaths(S \ {first})

\* find_images(None, recursive=True): rglob from input_dir, every supported
\* file at any depth
FindImagesRecursive(tree) == SortedPaths(tree)

\* get_output_path and save_image with preserve_structure: the directory of
\* the file relative to input_dir is repeated below output_dir, which run_cli
\* sets to <input directory>/cropped unless -o names another one; the name is
\* f"{stem}_cropped.jpg"
CliOutputPath(lay, p) ==
    [depth |-> IF lay = "nested" THEN p.depth + 1 ELSE p.depth,
     base |-> p.base, crops |-> p.crops + 1, ext |-> "jpg", readable |-> TRUE]

\* the files below output_dir
OutputFiles(c) == IF c.layout = "nested" THEN c.tree ELSE c.outdir

\* save_image wrote path
CliWritten(c, path) ==
    IF c.layout = "nested" THEN [c EXCEPT !.tree = @ \cup {path}, !.saved = @ \cup {path}]
    ELSE [c EXCEPT !.outdir = @ \cup {path}, !.saved = @ \cup {path}]

\* the loop of process_batch moves on from the file at idx
CliMoved(c) ==
    IF c.idx < Len(c.images) THEN [c EXCEPT !.idx = @ + 1] ELSE [c EXCEPT !.pc = "return"]

\* one pass of the loop body of process_batch with skip_existing (the default
\* of BatchProcessor): an existing output is skipped, a readable file is
\* cropped and saved, an unreadable one fails
CliHandled(c, f) ==
    IF CliOutputPath(c.layout, f) \in OutputFiles(c)
       THEN [c EXCEPT !.stats = Bump(@, "skipped")]
    ELSE IF f.readable
       THEN [CliWritten(c, CliOutputPath(c.layout, f)) EXCEPT !.stats = Bump(@, "success")]
    ELSE [c EXCEPT !.stats = Bump(@, "failed")]

\* process_batch up to the loop: reset_stats, find_images, total
CliBatchStart ==
    /\ cli.pc = "idle"
    /\ Len(cli.runs) < MaxRuns
    /\ cli' = [cli EXCEPT !.images = FindImagesRecursive(cli.tree),
                          !.found = cli.tree,
                          !.saved = {},
                          !.stats = [ResetStats EXCEPT !.total = Cardinality(cli.tree)],
                          !.idx = 1,
                          !.pc = IF cli.tree = {} THEN "return" ELSE "loop"]
    /\ UNCHANGED <<orchVars, cropVars, configured, other, preserve_dpi, saved, worker,
                   cancel_requested, app>>

\* the loop body of process_batch for the file at idx
CliBatchFile ==
    /\ cli.pc = "loop"
    /\ cli' = CliMoved(CliHandled(cli, cli.images[cli.idx]))
    /\ UNCHANGED <<orchVars, cropVars, configured, other, preserve_dpi, saved, worker,
                   cancel_requested, app>>

\* return self.stats, and run_cli prints them
CliBatchReturn ==
    /\ cli.pc = "return"
    /\ cli' = [cli EXCEPT !.pc = "idle",
                          !.runs = Append(@, [found |-> cli.found, saved |-> cli.saved,
                                               stats |-> cli.stats])]
    /\ UNCHANGED <<orchVars, cropVars, configured, other, preserve_dpi, saved, worker,
                   cancel_requested, app>>

NextCli == CliBatchStart \/ CliBatchFile \/ CliBatchReturn

\* python main.py -d folder [-o output], run MaxRuns times over a folder
\* that holds at least one file
InitCli ==
    /\ IdleOrch
    /\ cropper = Construct(DefaultConfig)
    /\ call = IdleCall
    /\ ret = NoReturn
    /\ configured = cropper
    /\ other = NoThread
    /\ preserve_dpi = TRUE
    /\ saved = NoSave
    /\ worker = NoWorker
    /\ cancel_requested = FALSE
    /\ app = NoApp
    /\ \E lay \in {"nested", "separate"}, tree \in (SUBSET CliOriginals) \ {{}} :
          cli = [pc |-> "idle", layout |-> lay, tree |-> tree, outdir |-> {},
                 images |-> <<>>, idx |-> 0, found |-> {}, saved |-> {},
                 stats |-> ZeroStats, runs |-> <<>>]

SpecCli == InitCli /\ [][NextCli]_vars

-----------------------------------------------------------------------------
(* PhotoCardCropperApp: the start button, the worker threads, the main loop *)

\* a thread _start_processing has just started, at the top of _process_images
\* (completed: history, a _processing_complete this thread scheduled has run)
NewWorker == [pc |-> "begin", left |-> 0, completed |-> FALSE]

\* self.root.after(0, callback) by worker w, once per callback: they join,
\* in order, those the main loop holds
After(queue, w, callbacks) == queue \o [i \in 1 .. Len(callbacks) |-> <<callbacks[i], w>>]

FinallyNothing(queue, w) == queue

\* _process_images, the finally clause: self.root.after(0, self._processing_complete)
FinallyScheduled(queue, w) == After(queue, w, <<"processing_complete">>)

\* _processing_complete: is_processing = False, _set_ui_state(enabled=True)
ProcessingComplete(a) == [a EXCEPT !.is_processing = FALSE, !.start_enabled = TRUE]

\* _start_processing past its tests: is_processing = True,
\* _set_ui_state(enabled=False), the thread is started
Started(a) ==
    [a EXCEPT !.is_processing = TRUE, !.start_enabled = FALSE,
              !.workers = Append(@, NewWorker), !.presses = @ - 1]

\* the start button is pressed (a disabled button runs no command):
\* _start_processing returns early on a missing folder or a size that is no
\* positive number, and when is_processing is set; else it starts a worker
AppStart ==
    /\ app.pc = "gui"
    /\ app.start_enabled
    /\ app.presses > 0
    /\ \E valid \in BOOLEAN :
          app' = IF valid /\ ~app.is_processing THEN Started(app) ELSE app
    /\ UNCHANGED <<orchVars, cropVars, configured, other, preserve_dpi, saved, worker,
                   cancel_requested, cli>>

\* what the worker found: the number of images, or -1 where the constructors
\* or find_images raised
WorkerFinds == (-1) .. MaxFiles

\* _process_images from its start to the loop (main.py 1124-1163): an
\* exception goes to the outer except clause, which schedules a log line; an
\* empty folder schedules a log line and _processing_complete and returns;
\* else two log lines are scheduled and the loop begins
Begun(a, w, found) ==
    IF found < 0
       THEN [a EXCEPT !.queue = After(@, w, <<"append_log">>), !.workers[w].pc = "finally"]
    ELSE IF found = 0
       THEN [a EXCEPT !.queue = After(@, w, <<"append_log", "processing_complete">>),
                      !.workers[w].pc = "finally"]
    ELSE [a EXCEPT !.queue = After(@, w, <<"append_log", "append_log">>),
                   !.workers[w].pc = "loop", !.workers[w].left = found]

AppWorkerBegin ==
    /\ app.pc = "gui"
    /\ \E w \in 1 .. Len(app.workers) :
          /\ app.workers[w].pc = "begin"
          /\ \E found \in WorkerFinds : app' = Begun(app, w, found)
    /\ UNCHANGED <<orchVars, cropVars, configured, other, preserve_dpi, saved, worker,
                   cancel_requested, cli>>

\* one pass of the loop (main.py 1169-1214): whatever happens to the file,
\* _update_progress is scheduled; after the last file the closing log line
\* is; an exception outside the inner try goes to the outer except clause
Looped(a, w, raised) ==
    IF raised
       THEN [a EXCEPT !.queue = After(@, w, <<"append_log">>), !.workers[w].pc = "finally"]
    ELSE IF a.workers[w].left > 1
       THEN [a EXCEPT !.queue = After(@, w, <<"update_progress">>), !.workers[w].left = @ - 1]
    ELSE [a EXCEPT !.queue = After(@, w, <<"update_progress", "append_log">>),
                   !.workers[w].left = 0, !.workers[w].pc = "finally"]

AppWorkerFile ==
    /\ app.pc = "gui"
    /\ \E w \in 1 .. Len(app.workers) :
          /\ app.workers[w].pc = "loop"
          /\ \E raised \in BOOLEAN : app' = Looped(app, w, raised)
    /\ UNCHANGED <<orchVars, cropVars, configured, other, preserve_dpi, saved, worker,
                   cancel_requested, cli>>

\* the finally clause (main.py 1224-1225), and the thread ends
AppWorkerFinally ==
    /\ app.pc = "gui"
    /\ \E w \in 1 .. Len(app.workers) :
          /\ app.workers[w].pc = "finally"
          /\ app' = [app EXCEPT !.queue = FinallyScheduled(@, w), !.workers[w].pc = "ended"]
    /\ UNCHANGED <<orchVars, cropVars, configured, other, preserve_dpi, saved, worker,
                   cancel_requested, cli>>

\* the main loop runs the oldest callback root.after holds
AppMainLoop ==
    /\ app.pc = "gui"
    /\ app.queue # <<>>
    /\ app' = IF Head(app.queue)[1] = "processing_complete"
                 THEN [ProcessingComplete(app) EXCEPT !.queue = Tail(@),
                                                      !.workers[Head(app.queue)[2]].completed = TRUE]
                 ELSE [app EXCEPT !.queue = Tail(@)]
    /\ UNCHANGED <<orchVars, cropVars, configured, other, preserve_dpi, saved, worker,
                   cancel_requested, cli>>

NextApp == AppStart \/ AppWorkerBegin \/ AppWorkerFile \/ AppWorkerFinally \/ AppMainLoop

\* the application after __init__, folders chosen; the button is pressed
\* with effect up to `presses` times
AppCreated(presses) ==
    /\ IdleOrch
    /\ cropper = Construct(DefaultConfig)
    /\ call = IdleCall
    /\ ret = NoReturn
    /\ configured = cropper
    /\ other = NoThread
    /\ preserve_dpi = TRUE
    /\ saved = NoSave
    /\ worker = NoWorker
    /\ cancel_requested = FALSE
    /\ cli = NoCli
    /\ app = [pc |-> "gui", is_processing |-> FALSE, start_enabled |-> TRUE,
              workers |-> <<>>, queue |-> <<>>, presses |-> presses]

InitApp == AppCreated(MaxStarts)

SpecApp == InitApp /\ [][NextApp]_vars

InitAppTwice == AppCreated(MaxFairStarts)

\* the threads run on and the main loop keeps serving its callbacks
FairSpecApp ==
    /\ InitAppTwice /\ [][NextApp]_vars
    /\ WF_vars(AppWorkerBegin) /\ WF_vars(AppWorkerFile)
    /\ WF_vars(AppWorkerFinally) /\ WF_vars(AppMainLoop)

\* two threads, each calling process_image once on one cropper
InitThreads ==
    /\ IdleOrch
    /\ cropper \in {Construct([DefaultConfig EXCEPT !.preserve_resolution = pr]) : pr \in BOOLEAN}
    /\ call = IdleCall
    /\ ret = NoReturn
    /\ IdleEnv

SpecThreads == InitThreads /\ [][NextThreads]_vars

-----------------------------------------------------------------------------
(* Claims about the orchestrators *)

StatSum == stats.success + stats.failed + stats.skipped

Handled(causes) == {k \in 1 .. Len(log) : log[k].cause \in causes}

\* the per-file failures: a load or decode error, an exception in the
\* pipeline, a save failure, an exception raised by the progress callback or
\* anywhere else in the loop body
FailureCauses == {"load_failed", "pipeline_exception", "save_failed",
                  "callback_raised", "loop_exception"}

InLoop == pc \in {"top", "process", "save", "gui_process", "gui_save"}

\* C1: when process_batch returns, success + failed + skipped = total, and
\* total is the number of files found, whatever happened to each file.
C1_ReturnedStatsAddUp ==
    (runner = "batch" /\ pc = "done") =>
        /\ StatSum = stats.total
        /\ stats.total = Cardinality(input_files)

C1_Witness ==
    /\ runner = "batch" /\ pc = "done"
    /\ stats.total = 2
    /\ log[1].cause = "load_failed"
    /\ log[2].cause = "save_failed"

\* C2 as stated: success + failed + skipped = total in every state of a run,
\* also between two file iterations.
C2_SumIsTotalThroughout ==
    (runner = "batch" /\ pc # "idle") => StatSum = stats.total

\* C2 amended: during a run success + failed + skipped is the number of files
\* handled so far, which is at most total, and it is total from the end of the
\* last iteration on.
C2_SumIsFilesHandled ==
    (runner = "batch") =>
        /\ pc \in {"top", "process", "save"} =>
              (StatSum = idx - 1 /\ StatSum < stats.total)
        /\ pc \in {"return", "done"} => StatSum = stats.total
        /\ pc = "idle" => StatSum = 0

C2_Witness ==
    /\ runner = "batch" /\ pc = "process"
    /\ idx = 2
    /\ stats.total = 2
    /\ StatSum = 1

\* C3: a failure confined to one file counts exactly one failure for that
\* file, and the loop goes on: the files are handled one by one in list order,
\* the loop stands at the file after the last one handled, and when the run
\* is over every file of the list has been handled; in process_batch and in
\* the GUI loop.
C3_FailureIsCountedAndLoopGoesOn ==
    /\ \A k \in 1 .. Len(log) : log[k].file = images[k]
    /\ InLoop => (Len(log) = idx - 1 /\ idx <= Len(images))
    /\ pc \in {"return", "gui_return", "done"} => Len(log) = Len(images)
    /\ runner = "batch" =>
          stats.failed = Cardinality(Handled(FailureCauses \cup {"no_face_fallback_off"}))
    /\ runner = "gui" => fail_count = Cardinality(Handled(FailureCauses))

C3_Witness ==
    /\ pc = "done"
    /\ Len(log) = 2
    /\ log[1].cause \in {"callback_raised", "loop_exception"}
    /\ log[2].cause = "saved"

\* C4 as stated: a file in which no face is found, with fallback_on_no_face
\* false, is counted as skipped and not as failed.
C4_NoFaceIsSkipped ==
    (runner = "batch") =>
        /\ stats.skipped = Cardinality(Handled({"output_exists", "no_face_fallback_off"}))
        /\ stats.failed = Cardinality(Handled(FailureCauses))

\* C5 as stated: with skip_existing, a file whose output path exists is never
\* handed to the cropper or saved, and counts as skipped and as nothing else.
C5_ExistingIsSkippedOnly ==
    (runner = "batch" /\ skip_existing) =>
        /\ \A k \in 1 .. Len(log) :
              log[k].existed => (k \notin cropCalls /\ k \notin saveCalls)
        /\ stats.skipped = Cardinality({k \in 1 .. Len(log) : log[k].existed})

\* C5 amended: with skip_existing, a file whose output path exists is never
\* handed to the cropper or saved; it counts as skipped and as nothing else
\* when its progress callback returns (or there is none), and as failed and as
\* nothing else when its progress callback raises.
C5_ExistingIsNotProcessed ==
    (runner = "batch" /\ skip_existing) =>
        /\ \A k \in 1 .. Len(log) :
              log[k].existed =>
                  /\ k \notin cropCalls /\ k \notin saveCalls
                  /\ log[k].cause \in {"output_exists", "callback_raised"}
        /\ stats.skipped =
              Cardinality({k \in 1 .. Len(log) :
                              log[k].existed /\ log[k].cause # "callback_raised"})
        /\ stats.failed + stats.success =
              Cardinality({k \in 1 .. Len(log) :
                              ~log[k].existed \/ log[k].cause = "callback_raised"})

C5_Witness ==
    /\ runner = "batch" /\ skip_existing /\ pc = "done"
    /\ Len(log) = 2
    /\ log[1].existed /\ log[1].cause = "output_exists"
    /\ log[2].existed /\ log[2].cause = "callback_raised"

\* C6: every run of process_batch comes to its return, with stats that account
\* for every file found, whatever happens to each file.
C6_BatchTerminates ==
    (runner = "batch") ~>
        (pc = "done" /\ StatSum = stats.total /\ stats.total = Cardinality(input_files))

C6_Witness ==
    /\ runner = "batch" /\ pc = "done"
    /\ Len(log) = 2
    /\ log[1].cause = "callback_raised"
    /\ log[2].cause = "pipeline_exception"

-----------------------------------------------------------------------------
(* Claims about the crop geometry *)

\* the region a _crop_with_padding call was given
Box == ret.input.box

\* C7: for every region of positive width and height, lying inside the
\* image, partly outside it or wholly outside it on any side, and in each of
\* the padding modes white, average and mirror, _crop_with_padding returns an
\* array of exactly the region's width and height.
C7_CropHasRegionSize ==
    (ret.fn = "_crop_with_padding" /\ Box.w > 0 /\ Box.h > 0)
        => /\ ret.out.value = "result"
           /\ ret.out.cropped = Array(Box.w, Box.h)

\* a mirror-mode call whose region overhangs the image on the left and on the
\* right and lies wholly below it came back with the region's size
C7_Witness ==
    /\ ret.fn = "_crop_with_padding"
    /\ cropper.padding_mode = "mirror"
    /\ Box.w > 0 /\ Box.h > 0
    /\ Box.x < 0 /\ Box.x + Box.w > ret.input.img.w
    /\ Box.y >= ret.input.img.h
    /\ ret.out.cropped = Array(Box.w, Box.h)

\* the region a _calculate_crop_region call computed
Region == ret.out.region

\* C8: the region _calculate_crop_region computes has the configured aspect
\* ratio r = width_mm / height_mm up to one pixel of width:
\* |region.w / region.h - r| <= 1 / region.h, which for region.h > 0 is
\* |region.w * height_mm - width_mm * region.h| <= height_mm.
C8_RatioWithinOnePixel ==
    (ret.fn = "_calculate_crop_region" /\ Region.h > 0)
        => Abs(Region.w * cropper.height_mm - cropper.width_mm * Region.h) <= cropper.height_mm

\* a region of a ratio that is not 1 came out a whole pixel narrower than
\* the ratio asks for: the bound is attained
C8_Witness ==
    /\ ret.fn = "_calculate_crop_region"
    /\ Region.h > 0
    /\ cropper.width_mm # cropper.height_mm
    /\ cropper.width_mm * Region.h - Region.w * cropper.height_mm = cropper.height_mm

\* the greatest integer not above the float f
Floor(f) == IF FloatGt(FromRat(Trunc(f), 1), f) THEN Trunc(f) - 1 ELSE Trunc(f)

\* the least integer not below the float f
Ceiling(f) == IF FloatGt(f, FromRat(Trunc(f), 1)) THEN Trunc(f) + 1 ELSE Trunc(f)

\* the integer part of the float f: what is left when the fraction is dropped
TowardZero(f) == IF FloatGt(FZero, f) THEN Ceiling(f) ELSE Floor(f)

\* the offsets in effect for a _calculate_crop_region call
OffX == IF ret.args.offset_x # None THEN ret.args.offset_x[1] ELSE cropper.offset_x

OffY == IF ret.args.offset_y # None THEN ret.args.offset_y[1] ELSE cropper.offset_y

\* the eye centre the call was given
Anchor == ret.input.eye_center

\* the region of the formulas, for a crop height and width, the offset
\* terms rounded by Rnd
FormulaPlaced(Rnd(_), crop_width, crop_height) ==
    [x |-> Anchor[1] - crop_width \div 2 + Rnd(MulInt(crop_width, Float(OffX))),
     y |-> Anchor[2] - Floor(MulInt(crop_height, Float(cropper.eye_position)))
           + Rnd(MulInt(crop_height, Float(OffY))),
     w |-> crop_width,
     h |-> crop_height]

FormulaSized(Rnd(_), crop_height) ==
    FormulaPlaced(Rnd, Floor(MulInt(crop_height, cropper.aspect_ratio)), crop_height)

FormulaRegion(Rnd(_)) ==
    FormulaSized(Rnd, Floor(MulInt(Box.h, Float(cropper.zoom_factor))))

\* C19 as stated: for every bbox, anchor and configuration, negative offsets
\* included, _calculate_crop_region returns cropHeight = floor(bbox.h*zoom_factor),
\* cropWidth = floor(cropHeight*aspect_ratio),
\* cropX = anchor.x - floor(cropWidth/2) + floor(cropWidth*offset_x) and
\* cropY = anchor.y - floor(cropHeight*eye_position) + floor(cropHeight*offset_y),
\* not clamped to the source bounds.
C19_RegionByFloors ==
    ret.fn = "_calculate_crop_region" => Region = FormulaRegion(Floor)

\* C19, amended: the same formulas with the two offset terms rounded toward
\* zero (the fraction dropped, so a negative term is rounded up):
\* cropX = anchor.x - floor(cropWidth/2) + trunc(cropWidth*offset_x) and
\* cropY = anchor.y - floor(cropHeight*eye_position) + trunc(cropHeight*offset_y),
\* not clamped to the source bounds.
C19_RegionByFormulas ==
    ret.fn = "_calculate_crop_region" => Region = FormulaRegion(TowardZero)

\* a call with negative offsets whose offset terms are not whole numbers
\* returned a region that starts left of and above the source image
C19_Witness ==
    /\ ret.fn = "_calculate_crop_region"
    /\ OffX.n < 0 /\ OffY.n < 0
    /\ Region # FormulaRegion(Floor)
    /\ Region = FormulaRegion(TowardZero)
    /\ Region.x < 0 /\ Region.y < 0

-----------------------------------------------------------------------------
(* Claims about the output size *)

\* a process_image call has returned a result
Produced(fns) == ret.fn \in fns /\ ret.out.value = "result"

\* C9: with preserve_resolution false, every result of process_image is
\* exactly width_mm * 10 by height_mm * 10 pixels for the width_mm and
\* height_mm in effect for the call: the ones passed to the call when both
\* are passed, the object's (as built or as set by set_size) otherwise.
C9_OutputIsTenPixelsPerMm ==
    (Produced({"process_image"}) /\ ~cropper.preserve_resolution)
        => IF ret.args.width_mm # None /\ ret.args.height_mm # None
              THEN /\ ret.out.w = ret.args.width_mm[1] * 10
                   /\ ret.out.h = ret.args.height_mm[1] * 10
              ELSE /\ ret.out.w = cropper.width_mm * 10
                   /\ ret.out.h = cropper.height_mm * 10

\* C10: with preserve_resolution true, a crop at least min_output_height
\* high is returned with its dimensions unchanged, and a lower crop is
\* resized to height min_output_height and width
\* floor(crop_w * min_output_height / crop_h).
C10_UpscaledWidthIsFloored ==
    (Produced({"process_image", "process_image_from_array"}) /\ cropper.preserve_resolution)
        => IF ret.out.cropped.h >= cropper.min_output_height
              THEN ret.out.w = ret.out.cropped.w /\ ret.out.h = ret.out.cropped.h
              ELSE /\ ret.out.h = cropper.min_output_height
                   /\ ret.out.w = (ret.out.cropped.w * cropper.min_output_height)
                                      \div ret.out.cropped.h

-----------------------------------------------------------------------------
(* Claims about face selection, metadata and overrides *)

Faces == ret.input.faces

\* the first position of the list that holds a rectangle of greatest area
FirstLargest(faces) ==
    CHOOSE i \in 1 .. Len(faces) :
        /\ \A j \in 1 .. Len(faces) : faces[j].w * faces[j].h <= faces[i].w * faces[i].h
        /\ \A j \in 1 .. (i - 1) : faces[j].w * faces[j].h < faces[i].w * faces[i].h

\* C11: _detect_largest_face returns no face for an empty list; for a
\* non-empty list it selects a rectangle of greatest area w*h, whatever the
\* order of the list, and among several of greatest area the one that comes
\* first in the list.
C11_LargestFaceFirstOnTie ==
    ret.fn = "_detect_largest_face"
        => IF Faces = <<>> THEN ret.out.value = "None"
           ELSE /\ ret.out.value = "face"
                /\ ret.out.found[1].face = Faces[FirstLargest(Faces)]

C11_Witness ==
    /\ ret.fn = "_detect_largest_face"
    /\ Len(Faces) = 3
    /\ Faces[1].w * Faces[1].h = 100
    /\ Faces[2].w * Faces[2].h = 400
    /\ Faces[3].w * Faces[3].h = 400
    /\ Faces[3] # Faces[2]
    /\ ret.out.found[1].face = Faces[2]

\* C12: the metadata process_image returns is the metadata loaded with the
\* file (dpi, exif, icc_profile), whatever the output pixel size, and the DPI
\* save_image attaches is the loaded DPI; a handler that preserves the DPI
\* attaches it.
C12_MetadataCarriedThrough ==
    (ret.fn = "process_image" /\ ret.out.value = "result")
        => /\ ret.metadata = Some(LoadMetadata(ret.file))
           /\ saved.written
                => /\ saved.dpi # None => saved.dpi[1] = LoadMetadata(ret.file).dpi
                   /\ preserve_dpi => saved.dpi # None

C12_Witness ==
    /\ ret.fn = "process_image"
    /\ ret.out.value = "result"
    /\ ret.file.info_dpi = Some(<<300, 300>>)
    /\ ret.out.h # ret.out.cropped.h
    /\ saved.written
    /\ saved.w = ret.out.w
    /\ saved.dpi = Some(<<300, 300>>)

\* the call on the file at idx has run its try block
CalledBack == runner = "gui" /\ pc = "gui_process" /\ idx \in cropCalls /\ call.pc \in {"exit", "idle"}

\* the offsets the try block of that call found on the object
OffsetsUsed ==
    IF call.pc = "exit" THEN <<call.used.offset_x, call.used.offset_y>>
    ELSE <<ret.used.offset_x, ret.used.offset_y>>

\* C13: in a GUI batch run with a per-file offset mapping, a file present in
\* the mapping is cropped with its mapped pair and a file absent from it with
\* the batch-level offsets, also after another file was cropped with its own
\* pair; between files the cropper holds the batch-level offsets.
C13_PerFileOffsets ==
    /\ CalledBack
         => OffsetsUsed = IF images[idx] \in DOMAIN worker.image_offsets
                             THEN worker.image_offsets[images[idx]]
                             ELSE <<worker.offset_x, worker.offset_y>>
    /\ (runner = "gui" /\ call.pc = "idle")
         => cropper.offset_x = worker.offset_x /\ cropper.offset_y = worker.offset_y

C13_Witness ==
    /\ CalledBack
    /\ call.pc = "idle"
    /\ idx = 2
    /\ images[1] \in DOMAIN worker.image_offsets
    /\ worker.image_offsets[images[1]] # <<worker.offset_x, worker.offset_y>>
    /\ images[2] \notin DOMAIN worker.image_offsets
    /\ log[1].cause = "saved"
    /\ ret.out.value = "result"
    /\ ret.out.region.w > 0
    /\ OffsetsUsed = <<Dec(-3, 10), Dec(2, 10)>>

NonPositive(c) == c.width_mm <= 0 \/ c.height_mm <= 0 \/ c.zoom_factor.n <= 0

\* C14: a configuration with a non-positive width_mm, height_mm or
\* zoom_factor is rejected before processing begins: with such a
\* configuration no file is loaded, cropped or saved.
C14_NonPositiveConfigRejected ==
    NonPositive(cropper) => call.pc # "exit" /\ ret.fn = "" /\ ~saved.written

\* C15: a batch run supports cooperative cancellation: the request is seen at
\* the top of each file's processing, so once it is made the run goes on to
\* no further file (the file in progress is completed).
C15_NoFileStartedAfterCancel == [][cancel_requested => idx' = idx]_vars

\* C16: a progress callback given to process_batch is invoked once per file
\* of the list, in list order with the indices 1 .. total, before the file is
\* processed or skipped; without a callback there is no invocation.
C16_CallbackOncePerFileInOrder ==
    runner = "batch"
        => IF has_callback
              THEN /\ \A k \in 1 .. Len(cbLog) : cbLog[k] = <<k, Len(images), images[k]>>
                   /\ Len(cbLog) = (IF pc = "idle" THEN 0
                                    ELSE IF pc = "top" THEN idx - 1
                                    ELSE IF pc = "done" THEN Len(images)
                                    ELSE idx)
                   /\ Len(log) <= Len(cbLog)
                   /\ cropCalls \cup saveCalls \subseteq 1 .. Len(cbLog)
              ELSE cbLog = <<>>

C16_Witness ==
    /\ runner = "batch"
    /\ has_callback
    /\ pc = "done"
    /\ Len(images) = 2
    /\ log[1].cause = "output_exists"
    /\ log[2].cause = "saved"
    /\ cbLog = <<<<1, 2, images[1]>>, <<2, 2, images[2]>>>>

\* the steps taken so far begin with `steps`
Began(steps) == Len(other.events) >= Len(steps) /\ SubSeq(other.events, 1, Len(steps)) = steps

\* the position of a step in the history (0 when it was not taken)
At(step, thread) ==
    IF \E k \in 1 .. Len(other.events) : other.events[k] = <<step, thread>>
       THEN CHOOSE k \in 1 .. Len(other.events) : other.events[k] = <<step, thread>>
       ELSE 0

\* what thread 1's try block read from the object
Used1 == IF call.pc = "exit" THEN call.used ELSE ret.used

Args1 == IF call.pc = "idle" THEN ret.args ELSE call.args

Args2 == IF other.call.pc = "idle" THEN other.ret.args ELSE other.call.args

\* both calls have returned, thread 2 having entered during thread 1's call
\* and left after it
Overlapped ==
    /\ At("exit", 1) > 0
    /\ At("exit", 2) > 0
    /\ At("enter", 1) < At("enter", 2)
    /\ At("enter", 2) < At("exit", 1)
    /\ At("exit", 1) < At("exit", 2)

\* C17: one cropper used by two concurrent process_image calls is not safe:
\* when thread 2 enters between thread 1's entry and thread 1's try block,
\* thread 1 computes with thread 2's zoom, eye position and offsets; and when
\* the calls overlap (enter 1, enter 2, exit 1, exit 2), the object is left
\* with thread 1's overrides instead of the values it had before either call.
C17_ConcurrentCallsInterfere ==
    /\ Began(<<<<"enter", 1>>, <<"enter", 2>>, <<"body", 1>>>>)
         => /\ Args2.zoom_factor # None => Used1.zoom_factor = Args2.zoom_factor[1]
            /\ Args2.eye_position # None => Used1.eye_position = Args2.eye_position[1]
            /\ Args2.offset_x # None => Used1.offset_x = Args2.offset_x[1]
            /\ Args2.offset_y # None => Used1.offset_y = Args2.offset_y[1]
    /\ Overlapped
         => /\ Args1.zoom_factor # None => cropper.zoom_factor = Args1.zoom_factor[1]
            /\ Args1.eye_position # None => cropper.eye_position = Args1.eye_position[1]
            /\ Args1.offset_x # None => cropper.offset_x = Args1.offset_x[1]
            /\ Args1.offset_y # None => cropper.offset_y = Args1.offset_y[1]

C17_Witness ==
    /\ Began(<<<<"enter", 1>>, <<"enter", 2>>, <<"body", 1>>>>)
    /\ Overlapped
    /\ ret.out.value = "result"
    /\ ret.args.zoom_factor = Some(Dec(16, 10))
    /\ ret.used.zoom_factor = Dec(2, 1)
    /\ ret.used.eye_position = Dec(35, 100)
    /\ cropper.zoom_factor = Dec(16, 10)
    /\ cropper.zoom_factor # configured.zoom_factor
    /\ cropper.offset_x # configured.offset_x

\* the fields a call may override
Overridable(c) ==
    <<c.zoom_factor, c.eye_position, c.offset_x, c.offset_y, c.aspect_ratio>>

\* C18: per-call overrides do not disturb the default configuration: after
\* any sequence of process_image and process_image_from_array calls made one
\* after the other, whatever they return, zoom_factor, eye_position,
\* offset_x, offset_y and aspect_ratio are as __init__ or set_size left them.
C18_OverridesAreRestored ==
    call.pc = "idle" => Overridable(cropper) = Overridable(configured)

C18_Witness ==
    /\ call.pc = "idle"
    /\ ret.fn = "process_image"
    /\ ret.out.value = "None"
    /\ ret.out.cause = "exception"
    /\ ret.args.zoom_factor # None
    /\ ret.args.eye_position # None
    /\ ret.args.offset_x # None
    /\ ret.args.width_mm # None
    /\ ret.args.height_mm # None
    /\ ret.used.aspect_ratio # cropper.aspect_ratio
    /\ ret.used.zoom_factor # cropper.zoom_factor
    /\ Overridable(cropper) = Overridable(configured)

\* C20: a computed crop region with cropWidth <= 0 or cropHeight <= 0 is a
\* hard error: process_image never returns an (image, metadata) result for
\* such a region, whether preserve_resolution is on or off.
C20_DegenerateRegionIsAnError ==
    (ret.fn = "process_image" /\ (ret.out.region.w <= 0 \/ ret.out.region.h <= 0))
        => ret.out.value # "result"

-----------------------------------------------------------------------------
(* Claims about the pixels of a crop *)

\* the pixels a _crop_with_padding call in white or average mode returned
Pixels == ret.out.pixels

InSource(x, y) == 0 <= x /\ x < ret.input.img.w /\ 0 <= y /\ y < ret.input.img.h

\* a white or average mode call that returned an array
Padded ==
    /\ ret.fn = "_crop_with_padding"
    /\ cropper.padding_mode \in {"white", "average"}
    /\ ret.out.cropped.ok

\* C21: in the white (solid) and average padding modes, for every crop
\* region and every output coordinate (i, j), the output pixel is the source
\* pixel at (crop_x + i, crop_y + j) when that lies inside the source, and the
\* fill colour otherwise; a region that does not meet the source at all
\* comes back all fill colour.
C21_PixelsAreSourceOrFill ==
    Padded =>
        \A i \in 0 .. Box.w - 1, j \in 0 .. Box.h - 1 :
            Pixels[i, j] = IF InSource(Box.x + i, Box.y + j)
                              THEN SourcePixel(Box.x + i, Box.y + j)
                              ELSE FillPixel(cropper.padding_mode)

\* an average mode call whose region overhangs the image on the left and at
\* the top came back with fill at its first pixel and the image's first
\* pixel further in
C21_Witness ==
    /\ Padded
    /\ cropper.padding_mode = "average"
    /\ Box.x < 0 /\ Box.y < 0 /\ Box.x + Box.w > 0 /\ Box.y + Box.h > 0
    /\ Pixels[0, 0] = FillPixel("average")
    /\ Pixels[-Box.x, -Box.y] = SourcePixel(0, 0)

\* C22: in average padding mode the fill colour is, in each channel, the
\* arithmetic mean of all source pixels rounded to the nearest integer: no
\* integer is nearer to the mean sum/count than the channel's fill value.
C22_FillIsNearestToMean ==
    (ret.fn = "_get_padding_color" /\ cropper.padding_mode = "average")
        => \A ch \in 1 .. 3 :
              2 * Abs(ret.out.colour[ch] * Len(ret.input.pixels)
                      - ChannelSum(ret.input.pixels, ch, 1)) <= Len(ret.input.pixels)

\* the source image of a _center_crop_fallback call
Source == ret.input.img

\* C23: for every source size and target aspect ratio width_mm / height_mm,
\* the rectangle of the fallback centre crop lies within the source
\* (0 <= x, 0 <= y, x + w <= source.width, y + h <= source.height), keeps the
\* full source height when the source is relatively wider than the target
\* and the full source width otherwise, and is centred:
\* x = floor((source.width - w) / 2), y = floor((source.height - h) / 2).
C23_FallbackRectangleInsideAndCentred ==
    ret.fn = "_center_crop_fallback" =>
        /\ 0 <= Region.x /\ 0 <= Region.y
        /\ Region.x + Region.w <= Source.w /\ Region.y + Region.h <= Source.h
        /\ IF Source.w * cropper.height_mm > cropper.width_mm * Source.h
              THEN Region.h = Source.h
              ELSE Region.w = Source.w
        /\ Region.x = (Source.w - Region.w) \div 2
        /\ Region.y = (Source.h - Region.h) \div 2

\* a 600 x 800 source, wider than the 55 x 85 card, kept its height and
\* was cut to 517 columns, the odd column of the 83 left over on the right
C23_Witness ==
    /\ ret.fn = "_center_crop_fallback"
    /\ cropper.width_mm = 55 /\ cropper.height_mm = 85
    /\ Source = Array(600, 800)
    /\ Region = [x |-> 41, y |-> 0, w |-> 517, h |-> 800]

-----------------------------------------------------------------------------
(* Claims about the statistics of a run *)

\* C24: during a batch run each of the counters success, failed and skipped
\* only ever increases, by exactly one per handled file and in exactly one
\* counter; total does not change after it is set; and the stats returned
\* are those accumulated during the run.
C24_CountersOnlyGrow ==
    [][(runner = "batch" /\ pc # "idle") =>
          /\ stats'.total = stats.total
          /\ \A c \in {"success", "failed", "skipped"} : stats'[c] \in {stats[c], stats[c] + 1}
          /\ StatSum' - StatSum = Len(log') - Len(log)
          /\ Len(log') - Len(log) = (IF pc' = "return" \/ idx' = idx + 1 THEN 1 ELSE 0)
          /\ (pc' = "done" => stats' = stats)]_vars

\* a run over two files returned with one of them saved and one skipped
C24_Witness ==
    /\ runner = "batch"
    /\ pc = "done"
    /\ stats = [total |-> 2, success |-> 1, failed |-> 0, skipped |-> 1]
    /\ Len(log) = 2

-----------------------------------------------------------------------------
(* Claims about output paths *)

\* the files of the run that were saved
SavedFiles == Handled({"saved"})

\* C25: for every supported output_format (jpg, jpeg, png, webp, tiff) the
\* path process_batch tests for skip-existing (get_output_path) is the path
\* save_image writes for that input, so the output of a file saved
\* successfully is there for the test of the next run with skip_existing.
C25_SkipTestSeesSavedOutput ==
    \A k \in SavedFiles :
        /\ GetOutputPath(log[k].file, output_format) = SavePath(log[k].file, output_format)
        /\ GetOutputPath(log[k].file, output_format) \in fs

\* C26: within one batch run distinct input files map to distinct output
\* paths (a.jpg and a.png of one folder included): a file is counted skipped
\* only if its output existed before the run started, and no successful save
\* overwrites the output written for another input of the same run.
C26_DistinctOutputsPerRun ==
    runner = "batch" =>
        /\ \A i, j \in 1 .. Len(images) :
              i # j => GetOutputPath(images[i], output_format)
                          # GetOutputPath(images[j], output_format)
        /\ \A k \in Handled({"output_exists"}) :
              ~ \E j \in SavedFiles :
                    /\ j < k
                    /\ ~log[j].existed
                    /\ GetOutputPath(log[j].file, output_format) = SavePath(log[j].file, output_format)
                    /\ SavePath(log[j].file, output_format) = GetOutputPath(log[k].file, output_format)
        /\ \A j, k \in SavedFiles :
              j # k => SavePath(log[j].file, output_format) # SavePath(log[k].file, output_format)

\* C27: re-running the directory batch is idempotent: a second process_batch
\* over the same input directory with skip_existing finds the same set of
\* input files as the first run and saves no new output, also with the CLI's
\* default output directory <input directory>/cropped (a run never takes the
\* outputs of an earlier run as inputs).
C27_RerunIsIdempotent ==
    \A k \in 2 .. Len(cli.runs) :
        /\ cli.runs[k].found = cli.runs[1].found
        /\ cli.runs[k].saved = {}

-----------------------------------------------------------------------------
(* Claims about the GUI's worker threads *)

\* the workers started by _start_processing that have not ended
RunningWorkers == {w \in 1 .. Len(app.workers) : app.workers[w].pc # "ended"}

\* C28: in the GUI at most one batch worker thread is processing at any
\* time: under every interleaving of start requests, worker steps and the
\* callbacks the worker schedules on the main thread (the empty-folder path,
\* where completion is scheduled twice, included), is_processing is true
\* whenever a worker started by _start_processing is still running, so
\* _start_processing never starts a second worker alongside it.
C28_AtMostOneWorker ==
    app.pc = "gui" =>
        /\ (RunningWorkers # {} => app.is_processing)
        /\ Cardinality(RunningWorkers) <= 1

\* C29: every GUI batch that _start_processing starts eventually reaches
\* _processing_complete, which clears is_processing and enables the controls
\* again, whatever happens in the worker: the cropper cannot be built, the
\* folder is empty, files fail, or an exception is raised outside the
\* per-file loop.
C29_EveryBatchCompletes ==
    /\ \A w \in 1 .. MaxStarts :
          (Len(app.workers) >= w) ~> (Len(app.workers) >= w /\ app.workers[w].completed)
    /\ [][\A w \in 1 .. Len(app.workers) :
             (~app.workers[w].completed /\ app'.workers[w].completed)
                => (~app'.is_processing /\ app'.start_enabled)]_vars

\* a worker that left its loop by an exception has ended and the
\* _processing_complete its finally clause scheduled has run
C29_Witness ==
    /\ app.pc = "gui"
    /\ Len(app.workers) = 1
    /\ app.workers[1].pc = "ended"
    /\ app.workers[1].left = 2
    /\ app.workers[1].completed
    /\ ~app.is_processing /\ app.start_enabled
    /\ app.queue = <<>>

-----------------------------------------------------------------------------
(* Claims about exceptions of process_image *)

\* C30: process_image never propagates an exception to its caller: for every
\* input file and every combination of per-call overrides, width_mm and
\* height_mm included, a finished call has returned an (image, metadata) pair
\* or None, and the configuration is the one from before the call.
C30_ProcessImageNeverRaises ==
    (call.pc = "idle" /\ ret.fn = "process_image")
        => /\ ret.out.value \in {"result", "None"}
           /\ Overridable(cropper) = Overridable(configured)

====
